---- MODULE Spec2Model ----
(***************************************************************************)
(* Authentication and session-token subsystem of webadmin: the credential  *)
(* store (users, refresh_tokens), the token issuer and validator, the      *)
(* login / refresh / logout handlers and the two middleware gates in front *)
(* of the protected and admin routes.                                      *)
(*                                                                         *)
(* Time is counted in whole seconds (the precision of jwt.NumericDate).    *)
(* A Go string is modelled by a record (an "atom"): a JWT keeps the fields *)
(* its three segments encode, every other string keeps only its form.      *)
(***************************************************************************)
EXTENDS Integers, Sequences, FiniteSets, TLC

VARIABLES users, nextUserID, refresh_tokens, now, issued, req, resp

vars == <<users, nextUserID, refresh_tokens, now, issued, req, resp>>

(***************************************************************************)
(* Program constants                                                       *)
(***************************************************************************)
\* 24 * time.Hour, in seconds
AccessTTL == 86400
\* 7 * 24 * time.Hour, in seconds
RefreshTTL == 604800
\* ExpiresIn: 86400
ExpiresIn == 86400

StatusOK == 200
StatusCreated == 201
StatusBadRequest == 400
StatusUnauthorized == 401
StatusForbidden == 403
StatusNotFound == 404
StatusConflict == 409
StatusInternalServerError == 500

\* var jwtSecret = []byte("your-secret-key-change-in-production")
jwtSecret == "your-secret-key-change-in-production"

(***************************************************************************)
(* Bounds                                                                  *)
(***************************************************************************)
\* largest AUTOINCREMENT id the users table hands out
MaxUserID == 2
\* largest number of rows of refresh_tokens
MaxRows == 2
\* largest number of token strings the clients hold
MaxIssued == 2
\* largest number of rows of refresh_tokens and held token strings together
MaxTokens == 3
\* the instants the clock visits: the start, and one at which the access
\* tokens and the refresh tokens of the start have both expired
Instants == {0, RefreshTTL + 1}

(***************************************************************************)
(* Strings                                                                 *)
(***************************************************************************)
\* A string: form "jwt" is header.payload.signature with the fields below;
\* typ tells which Go struct was marshalled into the payload ("Claims" has
\* user_id/username/role, "RegisteredClaims" has only exp/iat).
Str(form) ==
    [form |-> form, alg |-> "", key |-> "", typ |-> "",
     user_id |-> 0, username |-> "", role |-> "", exp |-> 0, iat |-> 0]

EmptyString == Str("empty")
Space == Str("sp")
Bearer == Str("Bearer")
bearerLower == Str("bearer")
Garbage == Str("garbage")

\* jwt.NewWithClaims(method, claims).SignedString(key)
SignedString(alg, key, typ, uid, username, role, exp, iat) ==
    [form |-> "jwt", alg |-> alg, key |-> key, typ |-> typ,
     user_id |-> uid, username |-> username, role |-> role,
     exp |-> exp, iat |-> iat]

\* bcrypt.GenerateFromPassword / bcrypt.CompareHashAndPassword
GenerateFromPassword(p) == <<"bcrypt", p>>

\* mutant: the comparison's error is dropped
CompareHashAndPasswordIgnored(h, p) == TRUE

CompareHashAndPassword(h, p) == h = GenerateFromPassword(p)

(***************************************************************************)
(* Token issuer and validator (auth.go)                                    *)
(***************************************************************************)
\* mutant: the access token is signed over the registered claims alone
generateAccessTokenRegistered(user, t) ==
    SignedString("HS256", jwtSecret, "RegisteredClaims",
                 0, "", "", t + AccessTTL, t)
\* mutant: expirationTime := time.Now().Add(7 * 24 * time.Hour)
generateAccessTokenWeek(user, t) ==
    SignedString("HS256", jwtSecret, "Claims",
                 user.id, user.username, user.role, t + RefreshTTL, t)

generateAccessToken(user, t) ==
    SignedString("HS256", jwtSecret, "Claims",
                 user.id, user.username, user.role, t + AccessTTL, t)

generateRefreshToken(t) ==
    SignedString("HS256", jwtSecret, "RegisteredClaims",
                 0, "", "", t + RefreshTTL, t)

NoClaims == [ok |-> FALSE, UserID |-> 0, Username |-> "", Role |-> ""]

HMACAlgs == {"HS256", "HS384", "HS512"}

\* mutant: the token is parsed with ParseUnverified, its signature unchecked
validateTokenUnverified(tokenString, t) ==
    IF tokenString.form # "jwt" THEN NoClaims
    ELSE IF ~(t < tokenString.exp) THEN NoClaims
    ELSE [ok |-> TRUE,
          UserID |-> tokenString.user_id,
          Username |-> tokenString.username,
          Role |-> tokenString.role]

\* mutant: the parser runs with jwt.WithoutClaimsValidation, exp unchecked
validateTokenNoExpiry(tokenString, t) ==
    IF tokenString.form # "jwt" THEN NoClaims
    ELSE IF tokenString.alg \notin HMACAlgs THEN NoClaims
    ELSE IF tokenString.key # jwtSecret THEN NoClaims
    ELSE [ok |-> TRUE,
          UserID |-> tokenString.user_id,
          Username |-> tokenString.username,
          Role |-> tokenString.role]

\* mutant: the token is parsed into jwt.RegisteredClaims, not into Claims
validateTokenRegistered(tokenString, t) ==
    IF tokenString.form # "jwt" THEN NoClaims
    ELSE IF tokenString.alg \notin HMACAlgs THEN NoClaims
    ELSE IF tokenString.key # jwtSecret THEN NoClaims
    ELSE IF ~(t < tokenString.exp) THEN NoClaims
    ELSE [ok |-> TRUE, UserID |-> 0, Username |-> "", Role |-> ""]
\* mutant: the key function returns the key the token was signed with
validateTokenAnyKey(tokenString, t) ==
    IF tokenString.form # "jwt" THEN NoClaims
    ELSE IF tokenString.alg \notin HMACAlgs THEN NoClaims
    ELSE IF ~(t < tokenString.exp) THEN NoClaims
    ELSE [ok |-> TRUE,
          UserID |-> tokenString.user_id,
          Username |-> tokenString.username,
          Role |-> tokenString.role]

\* jwt.ParseWithClaims(tokenString, &Claims{}, keyFunc) at time t: the
\* key function returns jwtSecret whatever the header says; the parser
\* checks the segments, the signature for the header's method and exp.
validateToken(tokenString, t) ==
    IF tokenString.form # "jwt" THEN NoClaims
    ELSE IF tokenString.alg \notin HMACAlgs THEN NoClaims
    ELSE IF tokenString.key # jwtSecret THEN NoClaims
    ELSE IF ~(t < tokenString.exp) THEN NoClaims
    ELSE [ok |-> TRUE,
          UserID |-> tokenString.user_id,
          Username |-> tokenString.username,
          Role |-> tokenString.role]

(***************************************************************************)
(* Credential store (main.go).  users maps the ids of the rows of table    *)
(* users to the columns the subsystem reads; refresh_tokens is the table   *)
(* in rowid order.  name, avatar and the timestamps are not modelled.      *)
(***************************************************************************)
ErrNone == "nil"
ErrNoRows == "sql: no rows in result set"
ErrUnique == "UNIQUE constraint failed"
ErrStore == "database is unavailable"

NoUser ==
    [id |-> 0, username |-> "", email |-> "", role |-> "", status |-> "",
     password |-> <<"bcrypt", "">>]

\* createDefaultUser: the row inserted into an empty users table
DefaultUser ==
    [id |-> 1, username |-> "admin", email |-> "admin@ng-matero.com",
     role |-> "admin", status |-> "active",
     password |-> GenerateFromPassword("adminpwd")]

\* mutant: SELECT ... FROM users WHERE username = ?
getUserByUsernameAnyStatus(us, username) ==
    LET hit == { i \in DOMAIN us : us[i].username = username }
    IN  IF hit = {} THEN [err |-> ErrNoRows, user |-> NoUser]
        ELSE [err |-> ErrNone, user |-> us[CHOOSE i \in hit : TRUE]]

\* SELECT ... FROM users WHERE username = ? AND status = 'active'
getUserByUsername(us, username) ==
    LET hit == { i \in DOMAIN us : us[i].username = username
                                   /\ us[i].status = "active" }
    IN  IF hit = {} THEN [err |-> ErrNoRows, user |-> NoUser]
        ELSE [err |-> ErrNone, user |-> us[CHOOSE i \in hit : TRUE]]

\* mutant: the SELECT and the Scan leave out the role column
getUserByIDNoRole(us, id) ==
    IF id \in DOMAIN us
    THEN [err |-> ErrNone,
          user |-> [us[id] EXCEPT !.password = <<"bcrypt", "">>, !.role = ""]]
    ELSE [err |-> ErrNoRows, user |-> NoUser]

\* SELECT ... FROM users WHERE id = ?  (the password column is not read)
getUserByID(us, id) ==
    IF id \in DOMAIN us
    THEN [err |-> ErrNone, user |-> [us[id] EXCEPT !.password = <<"bcrypt", "">>]]
    ELSE [err |-> ErrNoRows, user |-> NoUser]
\* mutant: email TEXT NOT NULL, without UNIQUE
UniqueOKUsername(us) ==
    \A i, j \in DOMAIN us : i # j => us[i].username # us[j].username

\* username TEXT UNIQUE NOT NULL, email TEXT UNIQUE NOT NULL
UniqueOK(us) ==
    \A i, j \in DOMAIN us :
        i # j => us[i].username # us[j].username /\ us[i].email # us[j].email

\* createUser: INSERT INTO users ... VALUES (?, ?, ?, ?, ?, 'active', ?)
\* then getUserByID(LastInsertId)
createUser(us, nid, r) ==
    LET role == IF r.role = "" THEN "user" ELSE r.role
        row == [id |-> nid, username |-> r.username, email |-> r.email,
                role |-> role, status |-> "active",
                password |-> GenerateFromPassword(r.password)]
        us2 == [i \in DOMAIN us \cup {nid} |-> IF i = nid THEN row ELSE us[i]]
    IN  IF ~UniqueOK(us2)
        THEN [err |-> ErrUnique, user |-> NoUser, users |-> us, nextID |-> nid]
        ELSE [err |-> ErrNone, user |-> getUserByID(us2, nid).user,
              users |-> us2, nextID |-> nid + 1]

\* updateUser: UPDATE users SET <the non-empty fields> WHERE id = ?
\* then getUserByID(id)
updateUser(us, id, r) ==
    IF r.email = "" /\ r.role = "" /\ r.status = ""
    THEN [err |-> getUserByID(us, id).err, user |-> getUserByID(us, id).user,
          users |-> us]
    ELSE IF id \notin DOMAIN us
    THEN [err |-> ErrNoRows, user |-> NoUser, users |-> us]
    ELSE LET row == [us[id] EXCEPT
                        !.email = IF r.email # "" THEN r.email ELSE @,
                        !.role = IF r.role # "" THEN r.role ELSE @,
                        !.status = IF r.status # "" THEN r.status ELSE @]
             us2 == [us EXCEPT ![id] = row]
         IN  IF ~UniqueOK(us2)
             THEN [err |-> ErrUnique, user |-> NoUser, users |-> us]
             ELSE [err |-> ErrNone, user |-> getUserByID(us2, id).user,
                   users |-> us2]

\* deleteUser: DELETE FROM users WHERE id = ?
deleteUser(us, id) == [i \in DOMAIN us \ {id} |-> us[i]]

\* saveRefreshToken: INSERT INTO refresh_tokens (user_id, token, expires_at)
saveRefreshToken(rows, userID, token, expiresAt) ==
    Append(rows, [user_id |-> userID, token |-> token, expires_at |-> expiresAt])
\* mutant: DELETE FROM refresh_tokens WHERE token = ? LIMIT 1
deleteRefreshTokenFirst(rows, token) ==
    LET hit == { i \in 1..Len(rows) : rows[i].token = token }
        first == CHOOSE i \in hit : \A j \in hit : i <= j
    IN  IF hit = {} THEN rows
        ELSE SubSeq(rows, 1, first - 1) \o SubSeq(rows, first + 1, Len(rows))

\* DELETE FROM refresh_tokens WHERE token = ?
deleteRefreshToken(rows, token) ==
    LET keep(r) == r.token # token IN SelectSeq(rows, keep)

\* mutant: an expired row is reported and left in the table
validateRefreshTokenKeeps(rows, token, t) ==
    LET hit == { i \in 1..Len(rows) : rows[i].token = token }
        first == CHOOSE i \in hit : \A j \in hit : i <= j
    IN  IF hit = {}
        THEN [err |-> ErrNoRows, userID |-> 0, rows |-> rows, expired |-> FALSE]
        ELSE IF t > rows[first].expires_at
        THEN [err |-> ErrNoRows, userID |-> 0, rows |-> rows, expired |-> TRUE]
        ELSE [err |-> ErrNone, userID |-> rows[first].user_id, rows |-> rows,
              expired |-> FALSE]

\* mutant: a row that validates is consumed (deleted) by the validation
validateRefreshTokenOnce(rows, token, t) ==
    LET hit == { i \in 1..Len(rows) : rows[i].token = token }
        first == CHOOSE i \in hit : \A j \in hit : i <= j
    IN  IF hit = {}
        THEN [err |-> ErrNoRows, userID |-> 0, rows |-> rows, expired |-> FALSE]
        ELSE IF t > rows[first].expires_at
        THEN [err |-> ErrNoRows, userID |-> 0,
              rows |-> deleteRefreshToken(rows, token), expired |-> TRUE]
        ELSE [err |-> ErrNone, userID |-> rows[first].user_id,
              rows |-> deleteRefreshToken(rows, token), expired |-> FALSE]

\* validateRefreshToken at time t: QueryRow scans the table in rowid
\* order and takes the first row with the token; an expired row makes it
\* delete every row with that token and report sql.ErrNoRows (expired
\* tells that it took this branch).
validateRefreshToken(rows, token, t) ==
    LET hit == { i \in 1..Len(rows) : rows[i].token = token }
        first == CHOOSE i \in hit : \A j \in hit : i <= j
    IN  IF hit = {}
        THEN [err |-> ErrNoRows, userID |-> 0, rows |-> rows, expired |-> FALSE]
        ELSE IF t > rows[first].expires_at
        THEN [err |-> ErrNoRows, userID |-> 0,
              rows |-> deleteRefreshToken(rows, token), expired |-> TRUE]
        ELSE [err |-> ErrNone, userID |-> rows[first].user_id, rows |-> rows,
              expired |-> FALSE]

(***************************************************************************)
(* Requests and responses.  A request is in flight from the step that      *)
(* handles it until its fiber.Ctx is released; req and resp are the        *)
(* request and the response of that context, resp.locals its c.Locals and  *)
(* resp.trace the stages that ran, in order.                               *)
(***************************************************************************)
NoLocals == [set |-> FALSE, userID |-> 0, username |-> "", role |-> ""]

NoReq == [route |-> "none"]

Response(status, error, trace, locals) ==
    [status |-> status, error |-> error, message |-> "",
     access_token |-> EmptyString, token_type |-> "", expires_in |-> 0,
     refresh_token |-> EmptyString, user |-> NoUser,
     locals |-> locals, trace |-> trace]

NoResp == Response(0, "", <<>>, NoLocals)

\* Token{AccessToken, TokenType: "Bearer", ExpiresIn: 86400, RefreshToken}
TokenResponse(accessToken, refreshToken, trace) ==
    [Response(StatusOK, "", trace, NoLocals) EXCEPT
        !.access_token = accessToken, !.token_type = "Bearer",
        !.expires_in = ExpiresIn, !.refresh_token = refreshToken]

\* SuccessResponse{Message}
MessageResponse(status, message, trace, locals) ==
    [Response(status, "", trace, locals) EXCEPT !.message = message]

\* UserResponse{ID, ..., Username, Role, Status, ...}
UserResponse(status, user, trace, locals) ==
    [Response(status, "", trace, locals) EXCEPT !.user = user]

(***************************************************************************)
(* Authentication Gate and Authorization Gate (handlers.go)                *)
(***************************************************************************)
\* strings.Split(s, " ") of a string given as its sequence of atoms
RECURSIVE Split(_)
Split(s) ==
    IF s = <<>> THEN << <<>> >>
    ELSE LET rest == Split(Tail(s))
         IN  IF Head(s) = Space THEN << <<>> >> \o rest
             ELSE << <<Head(s)>> \o Head(rest) >> \o Tail(rest)

\* the string a part of the header spells: two atoms side by side are
\* neither "Bearer" nor a JWT
Concat(part) ==
    IF part = <<>> THEN EmptyString
    ELSE IF Len(part) = 1 THEN part[1]
    ELSE Garbage

\* mutant: the header is never found missing
HeaderMissingNever(authHeader) == FALSE

\* if authHeader == ""
HeaderMissing(authHeader) == authHeader = <<>>

\* mutant: the scheme is compared with strings.EqualFold
BearerFormatFold(parts) ==
    Len(parts) = 2 /\ Concat(parts[1]) \in {Bearer, bearerLower}

\* len(parts) == 2 && parts[0] == "Bearer"
BearerFormat(parts) == Len(parts) = 2 /\ Concat(parts[1]) = Bearer

\* mutant: the role is stored from the username claim and the username
\* from the role claim
LocalsSwapped(claims) ==
    [set |-> TRUE, userID |-> claims.UserID,
     username |-> claims.Role, role |-> claims.Username]

\* c.Locals("userID", claims.UserID); c.Locals("username", claims.Username);
\* c.Locals("role", claims.Role)
Locals(claims) ==
    [set |-> TRUE, userID |-> claims.UserID,
     username |-> claims.Username, role |-> claims.Role]

authMiddleware(authHeader, t) ==
    IF HeaderMissing(authHeader)
    THEN [next |-> FALSE,
          resp |-> Response(StatusUnauthorized, "Authorization header required",
                            <<"authMiddleware">>, NoLocals)]
    ELSE LET parts == Split(authHeader)
         IN  IF ~BearerFormat(parts)
             THEN [next |-> FALSE,
                   resp |-> Response(StatusUnauthorized,
                                     "Invalid authorization header format",
                                     <<"authMiddleware">>, NoLocals)]
             ELSE LET claims == validateToken(Concat(parts[2]), t)
                  IN  IF ~claims.ok
                      THEN [next |-> FALSE,
                            resp |-> Response(StatusUnauthorized,
                                              "Invalid or expired token",
                                              <<"authMiddleware", "validateToken">>,
                                              NoLocals)]
                      ELSE [next |-> TRUE,
                            resp |-> Response(0, "",
                                              <<"authMiddleware", "validateToken">>,
                                              Locals(claims))]

\* mutant: the role is compared with strings.EqualFold
RoleDeniedFold(locals) ==
    ~locals.set \/ locals.role \notin {"admin", "Admin", "ADMIN"}

\* role == nil || role.(string) != "admin"
RoleDenied(locals) == ~locals.set \/ locals.role # "admin"

\* adminMiddleware on the context the previous stage left in r
adminMiddleware(r) ==
    IF RoleDenied(r.locals)
    THEN [next |-> FALSE,
          resp |-> Response(StatusForbidden, "Admin access required",
                            Append(r.trace, "adminMiddleware"), r.locals)]
    ELSE [next |-> TRUE,
          resp |-> [r EXCEPT !.trace = Append(r.trace, "adminMiddleware")]]

\* app.Get("/user", authMiddleware, userHandler)
ProtectedChain(authHeader, t) == authMiddleware(authHeader, t)

\* mutant: admin := app.Group("/admin", authMiddleware)
AdminChainNoRoleGate(authHeader, t) == authMiddleware(authHeader, t)

\* admin := app.Group("/admin", authMiddleware, adminMiddleware)
AdminChain(authHeader, t) ==
    LET a == authMiddleware(authHeader, t)
    IN  IF a.next THEN adminMiddleware(a.resp) ELSE a

(***************************************************************************)
(* Public handlers (handlers.go).  Each takes the store, the clock, the    *)
(* parsed request and the fault the environment injects into this request  *)
(* ("query": the SELECT fails, "exec": the INSERT/UPDATE/DELETE fails,     *)
(* "sign_access"/"sign_refresh": SignedString fails) and returns the       *)
(* response with the store it leaves.                                      *)
(***************************************************************************)
Result(response, us, nid, rows) ==
    [resp |-> response, users |-> us, nextID |-> nid, rows |-> rows]

\* mutant: the refresh token is generated and saved whatever req.RememberMe
RememberMeAlways(rows, userID, t, rememberMe, fault) ==
    LET refreshToken == IF fault = "sign_refresh" THEN EmptyString
                        ELSE generateRefreshToken(t)
        expiresAt == t + RefreshTTL
    IN  IF fault = "exec" THEN [token |-> EmptyString, rows |-> rows]
        ELSE [token |-> refreshToken,
              rows |-> saveRefreshToken(rows, userID, refreshToken, expiresAt)]

\* mutant: response.RefreshToken is set before saveRefreshToken is called
RememberMeEager(rows, userID, t, rememberMe, fault) ==
    LET refreshToken == IF fault = "sign_refresh" THEN EmptyString
                        ELSE generateRefreshToken(t)
        expiresAt == t + RefreshTTL
    IN  IF ~rememberMe THEN [token |-> EmptyString, rows |-> rows]
        ELSE IF fault = "exec" THEN [token |-> refreshToken, rows |-> rows]
        ELSE [token |-> refreshToken,
              rows |-> saveRefreshToken(rows, userID, refreshToken, expiresAt)]
\* mutant: one session per user, the save replaces the user's earlier rows
RememberMeSingle(rows, userID, t, rememberMe, fault) ==
    LET refreshToken == IF fault = "sign_refresh" THEN EmptyString
                        ELSE generateRefreshToken(t)
        expiresAt == t + RefreshTTL
        others(r) == r.user_id # userID
    IN  IF ~rememberMe THEN [token |-> EmptyString, rows |-> rows]
        ELSE IF fault = "exec" THEN [token |-> EmptyString, rows |-> rows]
        ELSE [token |-> refreshToken,
              rows |-> saveRefreshToken(SelectSeq(rows, others), userID,
                                        refreshToken, expiresAt)]

\* if req.RememberMe { ... }: the refresh token the response carries and
\* the table the branch leaves
RememberMe(rows, userID, t, rememberMe, fault) ==
    LET refreshToken == IF fault = "sign_refresh" THEN EmptyString
                        ELSE generateRefreshToken(t)
        expiresAt == t + RefreshTTL
    IN  IF ~rememberMe THEN [token |-> EmptyString, rows |-> rows]
        ELSE IF fault = "exec" THEN [token |-> EmptyString, rows |-> rows]
        ELSE [token |-> refreshToken,
              rows |-> saveRefreshToken(rows, userID, refreshToken, expiresAt)]
\* mutant: the handler does not look for an empty username or password
loginHandlerUnvalidated(us, nid, rows, t, body, fault) ==
    LET tr == <<"loginHandler">>
        fail(status, error) ==
            Result(Response(status, error, tr, NoLocals), us, nid, rows)
        found == IF fault = "query" THEN [err |-> ErrStore, user |-> NoUser]
                 ELSE getUserByUsername(us, body.username)
        user == found.user
    IN  IF ~body.parse THEN fail(StatusBadRequest, "Invalid request body")
        ELSE IF found.err = ErrNoRows
        THEN fail(StatusUnauthorized, "Invalid credentials")
        ELSE IF found.err # ErrNone
        THEN fail(StatusInternalServerError, "Internal server error")
        ELSE IF ~CompareHashAndPassword(user.password, body.password)
        THEN fail(StatusUnauthorized, "Invalid credentials")
        ELSE IF fault = "sign_access"
        THEN fail(StatusInternalServerError, "Failed to generate access token")
        ELSE LET accessToken == generateAccessToken(user, t)
                 session == RememberMe(rows, user.id, t, body.rememberMe, fault)
             IN  Result(TokenResponse(accessToken, session.token, tr),
                        us, nid, session.rows)
\* mutant: the refresh token is generated and saved before the access
\* token is signed
loginHandlerSavesFirst(us, nid, rows, t, body, fault) ==
    LET tr == <<"loginHandler">>
        fail(status, error, rs) ==
            Result(Response(status, error, tr, NoLocals), us, nid, rs)
        found == IF fault = "query" THEN [err |-> ErrStore, user |-> NoUser]
                 ELSE getUserByUsername(us, body.username)
        user == found.user
        session == RememberMe(rows, user.id, t, body.rememberMe, fault)
    IN  IF ~body.parse THEN fail(StatusBadRequest, "Invalid request body", rows)
        ELSE IF body.username = "" \/ body.password = ""
        THEN fail(StatusBadRequest, "Username and password are required", rows)
        ELSE IF found.err = ErrNoRows
        THEN fail(StatusUnauthorized, "Invalid credentials", rows)
        ELSE IF found.err # ErrNone
        THEN fail(StatusInternalServerError, "Internal server error", rows)
        ELSE IF ~CompareHashAndPassword(user.password, body.password)
        THEN fail(StatusUnauthorized, "Invalid credentials", rows)
        ELSE IF fault = "sign_access"
        THEN fail(StatusInternalServerError, "Failed to generate access token",
                  session.rows)
        ELSE Result(TokenResponse(generateAccessToken(user, t), session.token,
                                  tr),
                    us, nid, session.rows)

loginHandler(us, nid, rows, t, body, fault) ==
    LET tr == <<"loginHandler">>
        fail(status, error) ==
            Result(Response(status, error, tr, NoLocals), us, nid, rows)
        found == IF fault = "query" THEN [err |-> ErrStore, user |-> NoUser]
                 ELSE getUserByUsername(us, body.username)
        user == found.user
    IN  IF ~body.parse THEN fail(StatusBadRequest, "Invalid request body")
        ELSE IF body.username = "" \/ body.password = ""
        THEN fail(StatusBadRequest, "Username and password are required")
        ELSE IF found.err = ErrNoRows
        THEN fail(StatusUnauthorized, "Invalid credentials")
        ELSE IF found.err # ErrNone
        THEN fail(StatusInternalServerError, "Internal server error")
        ELSE IF ~CompareHashAndPassword(user.password, body.password)
        THEN fail(StatusUnauthorized, "Invalid credentials")
        ELSE IF fault = "sign_access"
        THEN fail(StatusInternalServerError, "Failed to generate access token")
        ELSE LET accessToken == generateAccessToken(user, t)
                 session == RememberMe(rows, user.id, t, body.rememberMe, fault)
             IN  Result(TokenResponse(accessToken, session.token, tr),
                        us, nid, session.rows)
\* mutant: a refresh token found expired is answered "Refresh token expired"
refreshHandlerTellsExpiry(us, nid, rows, t, body, fault) ==
    LET tr == <<"refreshHandler">>
        fail(status, error, rs) ==
            Result(Response(status, error, tr, NoLocals), us, nid, rs)
        checked == validateRefreshToken(rows, body.refresh_token, t)
        valid == IF fault = "query"
                 THEN [err |-> ErrStore, userID |-> 0, rows |-> rows,
                       expired |-> FALSE]
                 ELSE IF fault = "exec" THEN [checked EXCEPT !.rows = rows]
                 ELSE checked
        found == getUserByID(us, valid.userID)
        trExpired == <<"refreshHandler", "DELETE FROM refresh_tokens">>
    IN  IF ~body.parse THEN fail(StatusBadRequest, "Invalid request body", rows)
        ELSE IF body.refresh_token = EmptyString
        THEN fail(StatusBadRequest, "Refresh token is required", rows)
        ELSE IF valid.err # ErrNone
        THEN Result(Response(StatusUnauthorized,
                             IF valid.expired THEN "Refresh token expired"
                             ELSE "Invalid or expired refresh token",
                             IF valid.expired THEN trExpired ELSE tr, NoLocals),
                    us, nid, valid.rows)
        ELSE IF found.err # ErrNone
        THEN fail(StatusUnauthorized, "User not found", valid.rows)
        ELSE IF fault = "sign_access"
        THEN fail(StatusInternalServerError, "Failed to generate access token",
                  valid.rows)
        ELSE Result(TokenResponse(generateAccessToken(found.user, t),
                                  EmptyString, tr),
                    us, nid, valid.rows)
\* mutant: a token whose user is not found is deleted before the 401
refreshHandlerPrunesOrphan(us, nid, rows, t, body, fault) ==
    LET tr == <<"refreshHandler">>
        fail(status, error, rs) ==
            Result(Response(status, error, tr, NoLocals), us, nid, rs)
        checked == validateRefreshToken(rows, body.refresh_token, t)
        valid == IF fault = "query"
                 THEN [err |-> ErrStore, userID |-> 0, rows |-> rows,
                       expired |-> FALSE]
                 ELSE IF fault = "exec" THEN [checked EXCEPT !.rows = rows]
                 ELSE checked
        found == getUserByID(us, valid.userID)
        trExpired == <<"refreshHandler", "DELETE FROM refresh_tokens">>
    IN  IF ~body.parse THEN fail(StatusBadRequest, "Invalid request body", rows)
        ELSE IF body.refresh_token = EmptyString
        THEN fail(StatusBadRequest, "Refresh token is required", rows)
        ELSE IF valid.err # ErrNone
        THEN Result(Response(StatusUnauthorized,
                             "Invalid or expired refresh token",
                             IF valid.expired THEN trExpired ELSE tr, NoLocals),
                    us, nid, valid.rows)
        ELSE IF found.err # ErrNone
        THEN fail(StatusUnauthorized, "User not found",
                  IF fault = "exec" THEN valid.rows
                  ELSE deleteRefreshToken(valid.rows, body.refresh_token))
        ELSE IF fault = "sign_access"
        THEN fail(StatusInternalServerError, "Failed to generate access token",
                  valid.rows)
        ELSE Result(TokenResponse(generateAccessToken(found.user, t),
                                  EmptyString, tr),
                    us, nid, valid.rows)

refreshHandler(us, nid, rows, t, body, fault) ==
    LET tr == <<"refreshHandler">>
        fail(status, error, rs) ==
            Result(Response(status, error, tr, NoLocals), us, nid, rs)
        checked == validateRefreshToken(rows, body.refresh_token, t)
        \* a failed DELETE of the expired rows is not looked at
        valid == IF fault = "query"
                 THEN [err |-> ErrStore, userID |-> 0, rows |-> rows,
                       expired |-> FALSE]
                 ELSE IF fault = "exec" THEN [checked EXCEPT !.rows = rows]
                 ELSE checked
        found == getUserByID(us, valid.userID)
        \* the stages of a refresh that found the row expired
        trExpired == <<"refreshHandler", "DELETE FROM refresh_tokens">>
    IN  IF ~body.parse THEN fail(StatusBadRequest, "Invalid request body", rows)
        ELSE IF body.refresh_token = EmptyString
        THEN fail(StatusBadRequest, "Refresh token is required", rows)
        ELSE IF valid.err # ErrNone
        THEN Result(Response(StatusUnauthorized,
                             "Invalid or expired refresh token",
                             IF valid.expired THEN trExpired ELSE tr, NoLocals),
                    us, nid, valid.rows)
        ELSE IF found.err # ErrNone
        THEN fail(StatusUnauthorized, "User not found", valid.rows)
        ELSE IF fault = "sign_access"
        THEN fail(StatusInternalServerError, "Failed to generate access token",
                  valid.rows)
        ELSE Result(TokenResponse(generateAccessToken(found.user, t),
                                  EmptyString, tr),
                    us, nid, valid.rows)
\* mutant: the error of deleteRefreshToken is answered with a 500
logoutHandlerChecked(us, nid, rows, t, body, fault) ==
    LET token == IF body.parse THEN body.refresh_token ELSE EmptyString
    IN  IF token # EmptyString /\ fault = "exec"
        THEN Result(Response(StatusInternalServerError,
                             "Failed to process logout",
                             <<"logoutHandler">>, NoLocals), us, nid, rows)
        ELSE Result(MessageResponse(StatusOK, "Logged out successfully",
                                    <<"logoutHandler">>, NoLocals),
                    us, nid,
                    IF token # EmptyString THEN deleteRefreshToken(rows, token)
                    ELSE rows)
\* mutant: the handler answers without calling deleteRefreshToken
logoutHandlerSkips(us, nid, rows, t, body, fault) ==
    Result(MessageResponse(StatusOK, "Logged out successfully",
                           <<"logoutHandler">>, NoLocals),
           us, nid, rows)

\* c.BodyParser's error is dropped: an unparsable body leaves req zero
logoutHandler(us, nid, rows, t, body, fault) ==
    LET token == IF body.parse THEN body.refresh_token ELSE EmptyString
        rows2 == IF token # EmptyString /\ fault # "exec"
                 THEN deleteRefreshToken(rows, token) ELSE rows
    IN  Result(MessageResponse(StatusOK, "Logged out successfully",
                               <<"logoutHandler">>, NoLocals),
               us, nid, rows2)

(***************************************************************************)
(* Protected handlers (handlers.go).  g is the context the gates left      *)
(* (its locals and trace); a path parameter is [int, n]: strconv.Atoi      *)
(* fails on a parameter that is not a number.                              *)
(***************************************************************************)
Enter(g, handler) == Append(g.trace, handler)

userHandler(us, nid, rows, g, fault) ==
    LET tr == Enter(g, "userHandler")
        found == IF fault = "query" THEN [err |-> ErrStore, user |-> NoUser]
                 ELSE getUserByID(us, g.locals.userID)
    IN  IF found.err = ErrNoRows
        THEN Result(Response(StatusNotFound, "User not found", tr, g.locals),
                    us, nid, rows)
        ELSE IF found.err # ErrNone
        THEN Result(Response(StatusInternalServerError, "Failed to fetch user",
                             tr, g.locals), us, nid, rows)
        ELSE Result(UserResponse(StatusOK, found.user, tr, g.locals),
                    us, nid, rows)

getUsersHandler(us, nid, rows, g, fault) ==
    LET tr == Enter(g, "getUsersHandler")
    IN  IF fault = "query"
        THEN Result(Response(StatusInternalServerError, "Failed to fetch users",
                             tr, g.locals), us, nid, rows)
        ELSE Result(MessageResponse(StatusOK, "", tr, g.locals), us, nid, rows)

createUserHandler(us, nid, rows, g, body, fault) ==
    LET tr == Enter(g, "createUserHandler")
        fail(status, error) ==
            Result(Response(status, error, tr, g.locals), us, nid, rows)
        made == createUser(us, nid, body)
    IN  IF ~body.parse THEN fail(StatusBadRequest, "Invalid request body")
        ELSE IF body.username = "" \/ body.email = "" \/ body.password = ""
        THEN fail(StatusBadRequest,
                  "Username, email, name, and password are required")
        ELSE IF body.role # "" /\ body.role # "admin" /\ body.role # "user"
        THEN fail(StatusBadRequest, "Role must be 'admin' or 'user'")
        ELSE IF fault = "exec"
        THEN fail(StatusInternalServerError, "Failed to create user")
        ELSE IF made.err = ErrUnique
        THEN fail(StatusConflict, "Username or email already exists")
        ELSE Result(UserResponse(StatusCreated, made.user, tr, g.locals),
                    made.users, made.nextID, rows)

getUserByIDHandler(us, nid, rows, g, id, fault) ==
    LET tr == Enter(g, "getUserByIDHandler")
        fail(status, error) ==
            Result(Response(status, error, tr, g.locals), us, nid, rows)
        found == getUserByID(us, id.n)
    IN  IF ~id.int THEN fail(StatusBadRequest, "Invalid user ID")
        ELSE IF fault = "query"
        THEN fail(StatusInternalServerError, "Failed to fetch user")
        ELSE IF found.err = ErrNoRows
        THEN fail(StatusBadRequest, "User not found")
        ELSE Result(UserResponse(StatusOK, found.user, tr, g.locals),
                    us, nid, rows)

\* the tail shared by update, enable and disable: updateUser and the
\* mapping of its error
UpdateOutcome(us, nid, rows, g, tr, id, fields, fault, notFound, conflict, failed) ==
    LET done == updateUser(us, id, fields)
    IN  IF fault = "exec"
        THEN Result(Response(StatusInternalServerError, failed, tr, g.locals),
                    us, nid, rows)
        ELSE IF done.err = ErrNoRows
        THEN Result(Response(notFound, "User not found", tr, g.locals),
                    us, nid, rows)
        ELSE IF done.err = ErrUnique
        THEN Result(Response(conflict,
                             IF conflict = StatusConflict
                             THEN "Email already exists" ELSE failed,
                             tr, g.locals), us, nid, rows)
        ELSE Result(UserResponse(StatusOK, done.user, tr, g.locals),
                    done.users, nid, rows)

updateUserHandler(us, nid, rows, g, id, body, fault) ==
    LET tr == Enter(g, "updateUserHandler")
        fail(status, error) ==
            Result(Response(status, error, tr, g.locals), us, nid, rows)
    IN  IF ~id.int THEN fail(StatusBadRequest, "Invalid user ID")
        ELSE IF ~body.parse THEN fail(StatusBadRequest, "Invalid request body")
        ELSE IF body.role # "" /\ body.role # "admin" /\ body.role # "user"
        THEN fail(StatusBadRequest, "Role must be 'admin' or 'user'")
        ELSE IF body.status # "" /\ body.status # "active"
                /\ body.status # "disabled"
        THEN fail(StatusBadRequest, "Status must be 'active' or 'disabled'")
        ELSE UpdateOutcome(us, nid, rows, g, tr, id.n, body, fault,
                           StatusNotFound, StatusConflict,
                           "Failed to update user")
\* mutant: the handler does not compare id with the caller's userID
deleteUserHandlerAnyone(us, nid, rows, g, id, fault) ==
    LET tr == Enter(g, "deleteUserHandler")
        fail(status, error) ==
            Result(Response(status, error, tr, g.locals), us, nid, rows)
    IN  IF ~id.int THEN fail(StatusBadRequest, "Invalid user ID")
        ELSE IF fault = "exec"
        THEN fail(StatusInternalServerError, "Failed to delete user")
        ELSE Result(MessageResponse(StatusOK, "User deleted successfully",
                                    tr, g.locals),
                    deleteUser(us, id.n), nid, rows)
\* mutant: the refresh tokens of the deleted user are deleted with it
deleteUserHandlerCascade(us, nid, rows, g, id, fault) ==
    LET tr == Enter(g, "deleteUserHandler")
        fail(status, error) ==
            Result(Response(status, error, tr, g.locals), us, nid, rows)
        currentUserID == g.locals.userID
        others(r) == r.user_id # id.n
    IN  IF ~id.int THEN fail(StatusBadRequest, "Invalid user ID")
        ELSE IF id.n = currentUserID
        THEN fail(StatusBadRequest, "Cannot delete your own account")
        ELSE IF fault = "exec"
        THEN fail(StatusInternalServerError, "Failed to delete user")
        ELSE Result(MessageResponse(StatusOK, "User deleted successfully",
                                    tr, g.locals),
                    deleteUser(us, id.n), nid, SelectSeq(rows, others))

deleteUserHandler(us, nid, rows, g, id, fault) ==
    LET tr == Enter(g, "deleteUserHandler")
        fail(status, error) ==
            Result(Response(status, error, tr, g.locals), us, nid, rows)
        currentUserID == g.locals.userID
    IN  IF ~id.int THEN fail(StatusBadRequest, "Invalid user ID")
        ELSE IF id.n = currentUserID
        THEN fail(StatusBadRequest, "Cannot delete your own account")
        ELSE IF fault = "exec"
        THEN fail(StatusInternalServerError, "Failed to delete user")
        ELSE Result(MessageResponse(StatusOK, "User deleted successfully",
                                    tr, g.locals),
                    deleteUser(us, id.n), nid, rows)

StatusOnly(status) == [email |-> "", role |-> "", status |-> status]

enableUserHandler(us, nid, rows, g, id, fault) ==
    LET tr == Enter(g, "enableUserHandler")
    IN  IF ~id.int
        THEN Result(Response(StatusBadRequest, "Invalid user ID", tr, g.locals),
                    us, nid, rows)
        ELSE UpdateOutcome(us, nid, rows, g, tr, id.n, StatusOnly("active"),
                           fault, StatusBadRequest, StatusInternalServerError,
                           "Failed to enable user")

disableUserHandler(us, nid, rows, g, id, fault) ==
    LET tr == Enter(g, "disableUserHandler")
        fail(status, error) ==
            Result(Response(status, error, tr, g.locals), us, nid, rows)
        currentUserID == g.locals.userID
    IN  IF ~id.int THEN fail(StatusBadRequest, "Invalid user ID")
        ELSE IF id.n = currentUserID
        THEN fail(StatusBadRequest, "Cannot disable your own account")
        ELSE UpdateOutcome(us, nid, rows, g, tr, id.n, StatusOnly("disabled"),
                           fault, StatusBadRequest, StatusInternalServerError,
                           "Failed to disable user")

(***************************************************************************)
(* Inputs the environment draws from                                       *)
(***************************************************************************)
BadBody(b) == [f \in DOMAIN b |-> IF f = "parse" THEN FALSE ELSE b[f]]

LoginBodies ==
    LET ok == [parse : {TRUE}, username : {"admin", "bob"},
               password : {"adminpwd", "hunter2"}, rememberMe : BOOLEAN]
        admin == [parse |-> TRUE, username |-> "admin",
                  password |-> "adminpwd", rememberMe |-> TRUE]
    IN  ok \cup {BadBody(admin), [admin EXCEPT !.username = ""],
                 [admin EXCEPT !.password = ""]}

LoginFaults == {"none", "query", "exec", "sign_access"}

\* a key the server never had
AttackerKey == "attacker-key"

ForgedTokens ==
    {Garbage,
     SignedString("HS256", AttackerKey, "Claims", 1, "admin", "admin",
                  2 * RefreshTTL, 0)}

TokenBodies(toks) ==
    LET ok == [parse : {TRUE}, refresh_token : toks \cup {EmptyString, Garbage}]
    IN  ok \cup {BadBody([parse |-> TRUE, refresh_token |-> EmptyString])}

RefreshFaults == {"none", "query", "exec", "sign_access"}
LogoutFaults == {"none", "exec"}
ReadFaults == {"none", "query"}
WriteFaults == {"none", "exec"}

\* the Authorization headers tried on every gated route: none, and for
\* every token at hand the well-formed header and the ill-formed ones
\* (no scheme, no token, lower-case scheme, a doubled or trailing space)
Headers(toks) ==
    {<<>>, <<Bearer>>, <<Bearer, Space>>}
        \cup { <<Bearer, Space, tk>> : tk \in toks \cup ForgedTokens }
        \cup UNION { { <<tk>>,
                       <<bearerLower, Space, tk>>,
                       <<Bearer, Space, Space, tk>>,
                       <<Bearer, Space, tk, Space>> } : tk \in toks }

IdParams ==
    { [int |-> TRUE, n |-> i] : i \in 1..MaxUserID }
        \cup {[int |-> FALSE, n |-> 0]}

CreateBodies ==
    LET ok == [parse : {TRUE}, username : {"admin", "bob"},
               email : {"admin@ng-matero.com", "bob@x"},
               password : {"hunter2"}, role : {"", "admin"}]
        bob == [parse |-> TRUE, username |-> "bob", email |-> "bob@x",
                password |-> "hunter2", role |-> ""]
    IN  ok \cup {BadBody(bob), [bob EXCEPT !.email = ""],
                 [bob EXCEPT !.role = "root"]}

UpdateBodies ==
    LET none == [parse |-> TRUE, email |-> "", role |-> "", status |-> ""]
    IN  {none, BadBody(none)}
            \cup {[none EXCEPT !.email = "admin@ng-matero.com"]}
            \cup { [none EXCEPT !.role = r] : r \in {"admin", "user", "root"} }
            \cup { [none EXCEPT !.status = st] : st \in {"disabled", "gone"} }

NotRead == [parse |-> FALSE]
NoParam == [int |-> FALSE, n |-> 0]

Request(route, header, id, body, fault) ==
    [route |-> route, header |-> header, id |-> id, body |-> body,
     fault |-> fault]

\* the fault a request met: an injected fault that changes nothing of the
\* handler's outcome (no call of its kind was made) was not met
Met(fault, outcome, clean) == IF outcome = clean THEN "none" ELSE fault

\* the token strings of a response
TokensOf(r) == {r.access_token, r.refresh_token} \ {EmptyString}

\* what the clients may hold after receiving new tokens: any of the old
\* and new ones there is room for
Keeps(held, new, room) ==
    { k \in SUBSET (held \cup new) : Cardinality(k) <= room }

Min(a, b) == IF a <= b THEN a ELSE b

(***************************************************************************)
(* The state machine                                                       *)
(***************************************************************************)
\* initDatabase on a fresh file: both tables empty, then createDefaultUser
Init ==
    /\ users = [i \in {1} |-> DefaultUser]
    /\ nextUserID = 2
    /\ refresh_tokens = <<>>
    /\ now = 0
    /\ issued = {}
    /\ req = NoReq
    /\ resp = NoResp

Idle == req = NoReq

\* the handler has returned r for request rq
Serve(rq, r) ==
    /\ r.nextID <= MaxUserID + 1
    /\ Len(r.rows) <= MaxRows
    /\ Len(r.rows) + Cardinality(issued) <= MaxTokens
    /\ req' = rq
    /\ resp' = r.resp
    /\ users' = r.users
    /\ nextUserID' = r.nextID
    /\ refresh_tokens' = r.rows
    /\ UNCHANGED <<now, issued>>

Rejected(g) == Result(g.resp, users, nextUserID, refresh_tokens)

Login ==
    /\ Idle
    /\ \E body \in LoginBodies, fault \in LoginFaults :
          LET h(f) == loginHandler(users, nextUserID, refresh_tokens, now, body, f)
              outcome == h(fault)
          IN  Serve(Request("POST /auth/login", <<>>, NoParam, body,
                            Met(fault, outcome, h("none"))),
                    outcome)

Refresh ==
    /\ Idle
    /\ \E body \in TokenBodies(issued), fault \in RefreshFaults :
          LET h(f) == refreshHandler(users, nextUserID, refresh_tokens, now, body, f)
              outcome == h(fault)
          IN  Serve(Request("POST /auth/refresh", <<>>, NoParam, body,
                            Met(fault, outcome, h("none"))),
                    outcome)

Logout ==
    /\ Idle
    /\ \E body \in TokenBodies(issued), fault \in LogoutFaults :
          LET h(f) == logoutHandler(users, nextUserID, refresh_tokens, now, body, f)
              outcome == h(fault)
          IN  Serve(Request("POST /auth/logout", <<>>, NoParam, body,
                            Met(fault, outcome, h("none"))),
                    outcome)

\* a request the gates let through: p is the (id, body, fault) the handler
\* reads, outcome what it returns and clean what it returns without fault
Handled(route, header, p, outcome, clean) ==
    Serve(Request(route, header, p[1], p[2], Met(p[3], outcome, clean)),
          outcome)

\* app.Get("/user", authMiddleware, userHandler)
GetUser ==
    /\ Idle
    /\ \E header \in Headers(issued) :
          LET g == ProtectedChain(header, now)
              handle(id, body, f) ==
                  userHandler(users, nextUserID, refresh_tokens, g.resp, f)
          IN  IF ~g.next
              THEN Serve(Request("GET /user", header, NoParam, NotRead, "none"),
                         Rejected(g))
              ELSE \E p \in {NoParam} \X {NotRead} \X ReadFaults :
                               Handled("GET /user", header, p,
                                       handle(p[1], p[2], p[3]),
                                       handle(p[1], p[2], "none"))

\* The gates of the /admin group are mounted on the prefix and answer
\* before the route's handler is looked at: a request they stop.
AdminDenied ==
    /\ Idle
    /\ \E header \in Headers(issued) :
          LET g == AdminChain(header, now)
          IN  /\ ~g.next
              /\ Serve(Request("/admin", header, NoParam, NotRead, "none"),
                       Rejected(g))

GetUsers ==
    /\ Idle
    /\ \E header \in Headers(issued) :
          LET g == AdminChain(header, now)
              handle(id, body, f) ==
                  getUsersHandler(users, nextUserID, refresh_tokens, g.resp, f)
          IN  /\ g.next
              /\ \E p \in {NoParam} \X {NotRead} \X ReadFaults :
                             Handled("GET /admin/users", header, p,
                                     handle(p[1], p[2], p[3]),
                                     handle(p[1], p[2], "none"))

CreateUser ==
    /\ Idle
    /\ \E header \in Headers(issued) :
          LET g == AdminChain(header, now)
              handle(id, body, f) ==
                  createUserHandler(users, nextUserID, refresh_tokens, g.resp,
                                    body, f)
          IN  /\ g.next
              /\ \E p \in {NoParam} \X CreateBodies \X WriteFaults :
                             Handled("POST /admin/users", header, p,
                                     handle(p[1], p[2], p[3]),
                                     handle(p[1], p[2], "none"))

GetUserByID ==
    /\ Idle
    /\ \E header \in Headers(issued) :
          LET g == AdminChain(header, now)
              handle(id, body, f) ==
                  getUserByIDHandler(users, nextUserID, refresh_tokens, g.resp,
                                     id, f)
          IN  /\ g.next
              /\ \E p \in IdParams \X {NotRead} \X ReadFaults :
                             Handled("GET /admin/users/:id", header, p,
                                     handle(p[1], p[2], p[3]),
                                     handle(p[1], p[2], "none"))

UpdateUser ==
    /\ Idle
    /\ \E header \in Headers(issued) :
          LET g == AdminChain(header, now)
              handle(id, body, f) ==
                  updateUserHandler(users, nextUserID, refresh_tokens, g.resp,
                                    id, body, f)
          IN  /\ g.next
              /\ \E p \in IdParams \X UpdateBodies \X WriteFaults :
                             Handled("PUT /admin/users/:id", header, p,
                                     handle(p[1], p[2], p[3]),
                                     handle(p[1], p[2], "none"))

DeleteUser ==
    /\ Idle
    /\ \E header \in Headers(issued) :
          LET g == AdminChain(header, now)
              handle(id, body, f) ==
                  deleteUserHandler(users, nextUserID, refresh_tokens, g.resp,
                                    id, f)
          IN  /\ g.next
              /\ \E p \in IdParams \X {NotRead} \X WriteFaults :
                             Handled("DELETE /admin/users/:id", header, p,
                                     handle(p[1], p[2], p[3]),
                                     handle(p[1], p[2], "none"))

EnableUser ==
    /\ Idle
    /\ \E header \in Headers(issued) :
          LET g == AdminChain(header, now)
              handle(id, body, f) ==
                  enableUserHandler(users, nextUserID, refresh_tokens, g.resp,
                                    id, f)
          IN  /\ g.next
              /\ \E p \in IdParams \X {NotRead} \X WriteFaults :
                             Handled("PUT /admin/users/:id/enable", header, p,
                                     handle(p[1], p[2], p[3]),
                                     handle(p[1], p[2], "none"))

DisableUser ==
    /\ Idle
    /\ \E header \in Headers(issued) :
          LET g == AdminChain(header, now)
              handle(id, body, f) ==
                  disableUserHandler(users, nextUserID, refresh_tokens, g.resp,
                                     id, f)
          IN  /\ g.next
              /\ \E p \in IdParams \X {NotRead} \X WriteFaults :
                             Handled("PUT /admin/users/:id/disable", header, p,
                                     handle(p[1], p[2], p[3]),
                                     handle(p[1], p[2], "none"))

\* the clock moves on while no request is being handled
Tick ==
    /\ Idle
    /\ \E t \in Instants : t > now /\ now' = t
    /\ UNCHANGED <<users, nextUserID, refresh_tokens, issued, req, resp>>

\* the response has been written and the fiber.Ctx is released; the
\* client takes the tokens of the response
Release ==
    /\ ~Idle
    /\ req' = NoReq
    /\ resp' = NoResp
    /\ issued' \in Keeps(issued, TokensOf(resp),
                        Min(MaxIssued, MaxTokens - Len(refresh_tokens)))
    /\ UNCHANGED <<users, nextUserID, refresh_tokens, now>>

Next ==
    \/ Login
    \/ Refresh
    \/ Logout
    \/ GetUser
    \/ AdminDenied
    \/ GetUsers
    \/ CreateUser
    \/ GetUserByID
    \/ UpdateUser
    \/ DeleteUser
    \/ EnableUser
    \/ DisableUser
    \/ Tick
    \/ Release

Spec == Init /\ [][Next]_vars

(***************************************************************************)
(* Properties.  They are stated on the state in which a request has been   *)
(* answered and its context not yet released (Done): req is the request,   *)
(* resp the response, and users and now are those the handler saw, no      *)
(* handler of a public route or gate changing them.                        *)
(***************************************************************************)
Done == req # NoReq

OnLogin == Done /\ req.route = "POST /auth/login"
OnRefresh == Done /\ req.route = "POST /auth/refresh"

\* the handlers setupRoutes mounts under /admin, by route
HandlerOf(route) ==
    CASE route = "GET /admin/users" -> "getUsersHandler"
      [] route = "POST /admin/users" -> "createUserHandler"
      [] route = "GET /admin/users/:id" -> "getUserByIDHandler"
      [] route = "PUT /admin/users/:id" -> "updateUserHandler"
      [] route = "DELETE /admin/users/:id" -> "deleteUserHandler"
      [] route = "PUT /admin/users/:id/enable" -> "enableUserHandler"
      [] route = "PUT /admin/users/:id/disable" -> "disableUserHandler"
      [] OTHER -> "none"

AdminRoutes ==
    {"/admin", "GET /admin/users", "POST /admin/users", "GET /admin/users/:id",
     "PUT /admin/users/:id", "DELETE /admin/users/:id",
     "PUT /admin/users/:id/enable", "PUT /admin/users/:id/disable"}

AdminHandlers == { HandlerOf(r) : r \in AdminRoutes \ {"/admin"} }

OnAdmin == Done /\ req.route \in AdminRoutes
Gated == Done /\ req.route \in AdminRoutes \cup {"GET /user"}

\* stage h ran on the request
Ran(h) == \E k \in DOMAIN resp.trace : resp.trace[k] = h
RanAdminHandler == \E k \in DOMAIN resp.trace : resp.trace[k] \in AdminHandlers

\* the header is the word Bearer, one space and a credential without spaces
WellFormed(h) ==
    /\ Len(h) >= 2
    /\ h[1] = Bearer
    /\ h[2] = Space
    /\ Cardinality({ k \in DOMAIN h : h[k] = Space }) = 1

\* the credential of a well-formed header
Presented(h) == IF Len(h) = 3 THEN h[3] ELSE EmptyString

\* the claims the validator finds in the request's credential
PresentedClaims == validateToken(Presented(req.header), now)
ValidToken == WellFormed(req.header) /\ PresentedClaims.ok

\* the rows of users a login names
Named == { i \in DOMAIN users : users[i].username = req.body.username }

NoSuchUser == Named = {}
UserDisabled == \E i \in Named : users[i].status = "disabled"
WrongPassword ==
    \E i \in Named : /\ users[i].status = "active"
                     /\ users[i].password # GenerateFromPassword(req.body.password)
RightPassword ==
    \E i \in Named : users[i].password = GenerateFromPassword(req.body.password)

InvalidCredentials ==
    Response(StatusUnauthorized, "Invalid credentials", <<"loginHandler">>,
             NoLocals)

\* C1: a login with a non-empty username and password that the store
\* answers, and that fails because no user has the username, or the user is
\* disabled, or the user is active and the password does not match, gets
\* one and the same response whatever the cause: 401 "Invalid credentials".
C1_SameRejection ==
    (/\ OnLogin
     /\ req.body.parse
     /\ req.body.username # ""
     /\ req.body.password # ""
     /\ req.fault # "query"
     /\ (NoSuchUser \/ UserDisabled \/ WrongPassword))
        => resp = InvalidCredentials

\* a disabled user's login with the right password has been answered
C1_DisabledRejected ==
    /\ OnLogin
    /\ req.body.parse
    /\ ~req.body.rememberMe
    /\ UserDisabled
    /\ RightPassword
    /\ resp = InvalidCredentials

\* the active rows a login names with their password
LoginUser ==
    { i \in Named : /\ users[i].status = "active"
                    /\ users[i].password = GenerateFromPassword(req.body.password) }

\* C2: a login with an active user's username and password, no call of which
\* fails, returns an access token that validateToken, at any time before the
\* token's expiry, decodes to that user's id, username and role.
C2_IssueValidateRoundTrip ==
    (OnLogin /\ req.body.parse /\ req.fault = "none") =>
        \A i \in LoginUser :
            /\ resp.status = StatusOK
            /\ \A t \in {now, now + 1, resp.access_token.exp - 1} :
                  validateToken(resp.access_token, t) =
                      [ok |-> TRUE, UserID |-> users[i].id,
                       Username |-> users[i].username, Role |-> users[i].role]

\* a user other than the default one has logged in and holds role "user"
C2_UserLoggedIn ==
    /\ OnLogin
    /\ resp.status = StatusOK
    /\ \E i \in LoginUser : users[i].id # DefaultUser.id /\ users[i].role = "user"
    /\ validateToken(resp.access_token, now).ok

\* C3: a login naming a user whose status is "disabled" returns no access
\* token and no refresh token and leaves refresh_tokens as it was, whatever
\* the password.
C3_DisabledNeverLogsIn ==
    [][(/\ Idle
        /\ req'.route = "POST /auth/login"
        /\ req'.body.parse
        /\ \E i \in DOMAIN users : /\ users[i].username = req'.body.username
                                   /\ users[i].status = "disabled")
          => (/\ resp'.access_token = EmptyString
              /\ resp'.refresh_token = EmptyString
              /\ refresh_tokens' = refresh_tokens)]_vars

\* a disabled user's remember-me login with the right password has been
\* answered
C3_DisabledRememberMe ==
    /\ OnLogin
    /\ req.body.parse
    /\ req.body.rememberMe
    /\ UserDisabled
    /\ RightPassword
    /\ resp.status = StatusUnauthorized

\* the users owning a row of refresh_tokens with the token
Owners(token) ==
    { refresh_tokens[k].user_id :
        k \in { j \in DOMAIN refresh_tokens : refresh_tokens[j].token = token } }

\* the token has a row that has not expired
Unexpired(token) ==
    \E k \in DOMAIN refresh_tokens :
        /\ refresh_tokens[k].token = token
        /\ now <= refresh_tokens[k].expires_at

\* C4: a refresh with an unexpired refresh token whose owner is disabled at
\* the time of the refresh returns no new access token.
C4_DisabledNeverRefreshes ==
    (/\ OnRefresh
     /\ req.body.parse
     /\ Unexpired(req.body.refresh_token)
     /\ \A u \in Owners(req.body.refresh_token) :
           u \in DOMAIN users /\ users[u].status = "disabled")
        => resp.access_token = EmptyString

\* C5: a successful refresh with a refresh token returns an access token
\* carrying the id of the user whose remember-me login was given that
\* token string (the user of each row saved with it), never another id.
C5_RefreshBinding ==
    (/\ OnRefresh
     /\ req.body.parse
     /\ resp.status = StatusOK)
        => \A u \in Owners(req.body.refresh_token) :
              validateToken(resp.access_token, now).UserID = u

\* C6: a refresh token returned by login and presented as the Bearer
\* credential of a gated route is rejected by the Authentication Gate: 401,
\* no Identity Context, no stage after the gate.
C6_RefreshTokenSinglePurpose ==
    (/\ Gated
     /\ WellFormed(req.header)
     /\ Presented(req.header) \in issued
     /\ Presented(req.header).typ = "RegisteredClaims")
        => (/\ resp.status = StatusUnauthorized
            /\ ~resp.locals.set
            /\ Len(resp.trace) <= 2)

AdminGates == <<"authMiddleware", "validateToken", "adminMiddleware">>

\* C7: on the admin routes a handler runs only after authMiddleware and then
\* adminMiddleware let the request through; a valid token with role "user"
\* is answered 403 "Admin access required", a missing or invalid token 401,
\* and a valid token with role "admin" reaches the route's handler.
C7_AdminGatesInOrder ==
    OnAdmin =>
        /\ RanAdminHandler =>
              /\ resp.trace = Append(AdminGates, HandlerOf(req.route))
              /\ ValidToken
              /\ PresentedClaims.Role = "admin"
        /\ (ValidToken /\ PresentedClaims.Role = "user") =>
              /\ resp.status = StatusForbidden
              /\ resp.error = "Admin access required"
              /\ resp.trace = AdminGates
        /\ ~ValidToken =>
              /\ resp.status = StatusUnauthorized
              /\ ~Ran("adminMiddleware")
              /\ ~RanAdminHandler
        /\ (ValidToken /\ PresentedClaims.Role = "admin") =>
              resp.trace = Append(AdminGates, HandlerOf(req.route))

\* a valid token of role "user" has been turned away from an admin route
C7_UserForbidden ==
    /\ OnAdmin
    /\ ValidToken
    /\ PresentedClaims.Role = "user"
    /\ resp.status = StatusForbidden

\* C8: on a gated route the Identity Context is attached, and the stage
\* after authMiddleware invoked, exactly when the validator was called and
\* succeeded; the attached userID, username and role are the claims of the
\* presented token, and no later stage runs without them.
C8_IdentityFromValidator ==
    Gated =>
        LET succeeded == Ran("validateToken") /\ PresentedClaims.ok
        IN  /\ resp.locals.set <=> succeeded
            /\ Len(resp.trace) > 2 <=> succeeded
            /\ resp.locals.set =>
                  resp.locals = [set |-> TRUE,
                                 userID |-> PresentedClaims.UserID,
                                 username |-> PresentedClaims.Username,
                                 role |-> PresentedClaims.Role]

\* userHandler has answered a request from the Identity Context of a token
C8_HandlerWithIdentity ==
    /\ Gated
    /\ req.route = "GET /user"
    /\ Ran("userHandler")
    /\ resp.locals.set
    /\ resp.locals.username = "bob"
    /\ resp.status = StatusOK

\* C9: a gated request without an Authorization header, or with an empty
\* one, is answered 401 "Authorization header required" by authMiddleware
\* alone: no validator call, no Identity Context, no handler.
C9_HeaderRequired ==
    (Gated /\ req.header = <<>>) =>
        resp = Response(StatusUnauthorized, "Authorization header required",
                        <<"authMiddleware">>, NoLocals)

\* a request without a header has been turned away from an admin route
C9_NoHeaderRejected ==
    /\ OnAdmin
    /\ req.header = <<>>
    /\ resp.status = StatusUnauthorized
    /\ issued # {}

\* C10: a gated request whose non-empty Authorization header is not the
\* word Bearer, one space and a credential without spaces is answered 401
\* "Invalid authorization header format" by authMiddleware alone: no
\* validator call, no handler.
C10_HeaderFormat ==
    (Gated /\ req.header # <<>> /\ ~WellFormed(req.header)) =>
        resp = Response(StatusUnauthorized,
                        "Invalid authorization header format",
                        <<"authMiddleware">>, NoLocals)

\* a valid token under the scheme "bearer" has been turned away
C10_LowerCaseRejected ==
    /\ Gated
    /\ Len(req.header) = 3
    /\ req.header[1] = bearerLower
    /\ req.header[2] = Space
    /\ validateToken(req.header[3], now).ok
    /\ resp.status = StatusUnauthorized

\* the three causes for which the validator fails on credential tk at time t
Malformed(tk) == tk.form # "jwt"
BadSignature(tk) == tk.form = "jwt" /\ tk.key # jwtSecret
Expired(tk, t) == tk.form = "jwt" /\ tk.key = jwtSecret /\ ~(t < tk.exp)

InvalidToken ==
    Response(StatusUnauthorized, "Invalid or expired token",
             <<"authMiddleware", "validateToken">>, NoLocals)

\* C11: on a gated route a well-formed "Bearer <token>" header whose token
\* is malformed, or signed with another key, or expired gets one and the
\* same response whatever the cause: 401 "Invalid or expired token".
C11_SameTokenRejection ==
    (/\ Gated
     /\ WellFormed(req.header)
     /\ \/ Malformed(Presented(req.header))
        \/ BadSignature(Presented(req.header))
        \/ Expired(Presented(req.header), now))
        => resp = InvalidToken

\* an access token the server issued has been turned away after its expiry
C11_ExpiredRejected ==
    /\ Gated
    /\ WellFormed(req.header)
    /\ Presented(req.header).typ = "Claims"
    /\ Expired(Presented(req.header), now)
    /\ resp = InvalidToken

(***************************************************************************)
(* adminMiddleware on its own: the stage is handed every context, those    *)
(* the Authentication Gate leaves and the one of a chain that never ran    *)
(* it, and the step applies the stage to it.                               *)
(***************************************************************************)
\* the values c.Locals("role") may hold
GateRoles == {"admin", "user", "Admin", "ADMIN", "administrator", "root", ""}

\* the contexts: nothing stored, or the three locals of authMiddleware
GateContexts ==
    {Response(0, "", <<>>, NoLocals)}
        \cup { Response(0, "", <<"authMiddleware", "validateToken">>,
                        Locals([ok |-> TRUE, UserID |-> i, Username |-> n,
                                Role |-> r])) :
                 i \in 0..MaxUserID, n \in {"", "admin", "bob"},
                 r \in GateRoles }

InitAdminGate ==
    /\ users = [i \in {1} |-> DefaultUser]
    /\ nextUserID = 2
    /\ refresh_tokens = <<>>
    /\ now = 0
    /\ issued = {}
    /\ req \in { [route |-> "adminMiddleware", context |-> g] :
                   g \in GateContexts }
    /\ resp = NoResp

\* adminMiddleware answers, or calls c.Next()
AdminGate ==
    /\ resp = NoResp
    /\ LET g == adminMiddleware(req.context)
       IN  resp' = IF g.next
                   THEN [g.resp EXCEPT !.trace = Enter(g.resp, "c.Next")]
                   ELSE g.resp
    /\ UNCHANGED <<users, nextUserID, refresh_tokens, now, issued, req>>

NextAdminGate == AdminGate

SpecAdminGate == InitAdminGate /\ [][NextAdminGate]_vars

\* adminMiddleware has acted on the context of req
GateDone == req.route = "adminMiddleware" /\ resp # NoResp

\* C12: adminMiddleware answers 403 "Admin access required", and does not
\* call the next stage, when the context holds no role or a role other
\* than exactly "admin"; it calls the next stage, and answers nothing,
\* only when the role is exactly "admin".
C12_AdminGateFailsClosed ==
    GateDone =>
        LET held == req.context.locals
            admin == held.set /\ held.role = "admin"
        IN  /\ ~admin =>
                  resp = Response(StatusForbidden, "Admin access required",
                                  Append(req.context.trace, "adminMiddleware"),
                                  held)
            /\ Ran("c.Next") <=> admin
            /\ admin => resp.status = 0

\* a context without locals has been answered 403
C12_NoRoleForbidden ==
    /\ GateDone
    /\ ~req.context.locals.set
    /\ resp.status = StatusForbidden

(***************************************************************************)
(* The access-token expiry boundary: login and GET /user for the default   *)
(* user, with a clock that visits the seconds around the expiry of the     *)
(* tokens issued in its first two seconds.                                 *)
(***************************************************************************)
ExpiryInstants == {0, 1, AccessTTL - 1, AccessTTL, AccessTTL + 1}

TickExpiry ==
    /\ Idle
    /\ \E t \in ExpiryInstants : t > now /\ now' = t
    /\ UNCHANGED <<users, nextUserID, refresh_tokens, issued, req, resp>>

NextExpiry ==
    \/ Login
    \/ GetUser
    \/ TickExpiry
    \/ Release

SpecExpiry == Init /\ [][NextExpiry]_vars

\* the access tokens the server has issued that a client holds or is
\* being sent
AccessTokens == { tk \in issued \cup TokensOf(resp) : tk.typ = "Claims" }

\* C13: an access token issued at t expires at t + 24h; the validator
\* accepts it at every instant up to one second before that and rejects it
\* at every instant after it, and once it has rejected the token it never
\* accepts it again; on GET /user the gate does as the validator says.
C13_ExpiryBoundary ==
    /\ \A tk \in AccessTokens :
          /\ tk.exp = tk.iat + AccessTTL
          /\ \A t \in ExpiryInstants :
                /\ (tk.iat <= t /\ t <= tk.exp - 1) => validateToken(tk, t).ok
                /\ t > tk.exp => ~validateToken(tk, t).ok
          /\ \A t1, t2 \in ExpiryInstants :
                (t1 <= t2 /\ ~validateToken(tk, t1).ok)
                    => ~validateToken(tk, t2).ok
    /\ (/\ Done
        /\ req.route = "GET /user"
        /\ WellFormed(req.header)
        /\ Presented(req.header) \in AccessTokens)
          => /\ now <= Presented(req.header).exp - 1
                   => (resp.locals.set /\ Ran("userHandler"))
             /\ now > Presented(req.header).exp => resp = InvalidToken

\* GET /user has accepted a token one second before its expiry while the
\* client holds another that the validator rejects
C13_LastSecondAccepted ==
    /\ Done
    /\ req.route = "GET /user"
    /\ WellFormed(req.header)
    /\ Presented(req.header) \in AccessTokens
    /\ now = Presented(req.header).exp - 1
    /\ Ran("userHandler")
    /\ \E tk \in AccessTokens : ~validateToken(tk, now).ok

\* the rows of refresh_tokens holding the token
RowsWith(rows, token) == { k \in DOMAIN rows : rows[k].token = token }

\* the token is stored, with an expiry earlier than t
StoredExpired(rows, token, t) ==
    /\ RowsWith(rows, token) # {}
    /\ \A k \in RowsWith(rows, token) : rows[k].expires_at < t

\* C14: a refresh, the store working, with a token stored with an expiry
\* earlier than the current time is answered as not found, leaves no row
\* with that token, and a validation of the token right after fails too;
\* and in every state the validation of a refresh token a client holds
\* whose expiry has passed fails.
C14_ExpiredRowRemoved ==
    /\ [][(/\ Idle
           /\ req'.route = "POST /auth/refresh"
           /\ req'.body.parse
           /\ req'.fault = "none"
           /\ StoredExpired(refresh_tokens, req'.body.refresh_token, now))
             => (/\ resp'.status = StatusUnauthorized
                 /\ resp'.error = "Invalid or expired refresh token"
                 /\ RowsWith(refresh_tokens', req'.body.refresh_token) = {}
                 /\ validateRefreshToken(refresh_tokens',
                                         req'.body.refresh_token,
                                         now').err = ErrNoRows)]_vars
    /\ [](\A tk \in issued :
             (tk.typ = "RegisteredClaims" /\ tk.exp < now)
                 => validateRefreshToken(refresh_tokens, tk, now).err = ErrNoRows)

\* a refresh has found its token expired and removed the row
C14_ExpiredRefreshed ==
    /\ OnRefresh
    /\ req.fault = "none"
    /\ Ran("DELETE FROM refresh_tokens")
    /\ req.body.refresh_token.exp < now
    /\ resp.status = StatusUnauthorized
    /\ RowsWith(refresh_tokens, req.body.refresh_token) = {}

\* the row of refresh_tokens a lookup of the token reads: the first
FirstRow(rows, token) ==
    rows[CHOOSE k \in RowsWith(rows, token) :
            \A j \in RowsWith(rows, token) : k <= j]

\* the token is stored and its stored expiry has not passed at t
StoredLive(rows, token, t) ==
    /\ RowsWith(rows, token) # {}
    /\ ~(t > FirstRow(rows, token).expires_at)

\* a refresh that succeeds leaves refresh_tokens as it was and returns no
\* refresh_token
RefreshFrame ==
    [][(/\ Idle
        /\ req'.route = "POST /auth/refresh"
        /\ resp'.status = StatusOK)
          => (/\ refresh_tokens' = refresh_tokens
              /\ resp'.refresh_token = EmptyString
              /\ resp'.access_token # EmptyString)]_vars

C16_RefreshReadsCurrentUser ==
    (OnRefresh /\ req.body.parse /\ resp.status = StatusOK) =>
        LET owner == FirstRow(refresh_tokens, req.body.refresh_token).user_id
        IN  /\ owner \in DOMAIN users
            /\ validateToken(resp.access_token, now) =
                   [ok |-> TRUE, UserID |-> users[owner].id,
                    Username |-> users[owner].username,
                    Role |-> users[owner].role]

\* a refresh has returned a token with a role other than the one in the
\* access token the same user holds from before
C16_RoleChangeReflected ==
    /\ OnRefresh
    /\ resp.status = StatusOK
    /\ \E tk \in issued :
          /\ tk.typ = "Claims"
          /\ tk.user_id = resp.access_token.user_id
          /\ tk.role # resp.access_token.role
          /\ users[tk.user_id].role = resp.access_token.role

\* what the gate attaches for an access token: the claims signed into it
Encoded(tk) ==
    [set |-> TRUE, userID |-> tk.user_id, username |-> tk.username,
     role |-> tk.role]

\* C17: whatever the store has become, the gate lets an access token the
\* server issued through at every time before the token's expiry, with
\* the id, username and role signed into it: in every state for each held
\* access token at the current time and up to its last second, and on
\* every gated request that presents one.
C17_StatelessAccessToken ==
    /\ \A tk \in AccessTokens :
          \A t \in {now, tk.exp - 1} :
              t < tk.exp =>
                  LET g == authMiddleware(<<Bearer, Space, tk>>, t)
                  IN  g.next /\ g.resp.locals = Encoded(tk)
    /\ (/\ Gated
        /\ WellFormed(req.header)
        /\ Presented(req.header) \in AccessTokens
        /\ now < Presented(req.header).exp)
          => /\ resp.locals = Encoded(Presented(req.header))
             /\ Len(resp.trace) > 2

\* the gate has let through the token of a user who was deleted since
C17_DeletedUserAccepted ==
    /\ Gated
    /\ WellFormed(req.header)
    /\ Presented(req.header) \in AccessTokens
    /\ Presented(req.header).user_id \notin DOMAIN users
    /\ resp.locals = Encoded(Presented(req.header))
    /\ Len(resp.trace) > 2
    /\ refresh_tokens = <<>>

\* the last row of refresh_tokens is new, owned by the user the login
\* names, and holds the token
RowAdded(before, after, username, token) ==
    /\ Len(after) = Len(before) + 1
    /\ SubSeq(after, 1, Len(before)) = before
    /\ after[Len(after)].token = token
    /\ \E i \in DOMAIN users : /\ users[i].username = username
                               /\ after[Len(after)].user_id = users[i].id

\* C18: a successful login, the signing working, adds a row to
\* refresh_tokens and returns a refresh_token exactly when the request set
\* rememberMe and the INSERT succeeded: then exactly one row is added, owned
\* by the authenticated user and holding the returned string; otherwise
\* refresh_tokens is unchanged and the response has no refresh_token.
C18_RememberMeDecides ==
    [][(/\ Idle
        /\ req'.route = "POST /auth/login"
        /\ resp'.status = StatusOK
        /\ req'.fault # "sign_refresh")
          => IF req'.body.rememberMe /\ req'.fault # "exec"
             THEN /\ resp'.refresh_token # EmptyString
                  /\ RowAdded(refresh_tokens, refresh_tokens',
                              req'.body.username, resp'.refresh_token)
             ELSE /\ resp'.refresh_token = EmptyString
                  /\ refresh_tokens' = refresh_tokens]_vars

\* a remember-me login has added a second row for the token it returned
C18_SecondRowSaved ==
    /\ OnLogin
    /\ resp.status = StatusOK
    /\ req.body.rememberMe
    /\ req.fault = "none"
    /\ Len(refresh_tokens) = 2
    /\ refresh_tokens[2].token = resp.refresh_token
    /\ refresh_tokens[2].user_id = validateToken(resp.access_token, now).UserID
    /\ refresh_tokens[1].token # resp.refresh_token

\* C19: a remember-me login with the right password whose
\* saveRefreshToken fails is answered 200 with a valid access token for
\* the user, token_type "Bearer", expires_in 86400 and no refresh_token.
C19_SaveFailureSwallowed ==
    (OnLogin /\ req.fault = "exec") =>
        /\ req.body.rememberMe
        /\ LoginUser # {}
        /\ resp.status = StatusOK
        /\ \A i \in LoginUser :
              validateToken(resp.access_token, now) =
                  [ok |-> TRUE, UserID |-> users[i].id,
                   Username |-> users[i].username, Role |-> users[i].role]
        /\ resp.token_type = "Bearer"
        /\ resp.expires_in = ExpiresIn
        /\ resp.refresh_token = EmptyString

\* a remember-me login whose save failed has been answered 200
C19_LoginWithoutSession ==
    /\ OnLogin
    /\ req.fault = "exec"
    /\ req.body.rememberMe
    /\ resp.status = StatusOK
    /\ resp.access_token # EmptyString

(***************************************************************************)
(* The public routes when SignedString can fail for the refresh token.     *)
(***************************************************************************)
SigningFaults == {"none", "sign_refresh"}

\* app.Post("/auth/login", loginHandler), SignedString failing or not
LoginSigning ==
    /\ Idle
    /\ \E body \in LoginBodies, fault \in SigningFaults :
          LET h(f) == loginHandler(users, nextUserID, refresh_tokens, now, body, f)
              outcome == h(fault)
          IN  Serve(Request("POST /auth/login", <<>>, NoParam, body,
                            Met(fault, outcome, h("none"))),
                    outcome)

NextSigning ==
    \/ LoginSigning
    \/ Refresh
    \/ Logout
    \/ Tick
    \/ Release

SpecSigning == Init /\ [][NextSigning]_vars

\* C20: a remember-me login during which the signing of the refresh token
\* fails is answered 200 with the access token and no refresh_token, and
\* adds no row to refresh_tokens.
C20_SignFailureNoSession ==
    [][(/\ Idle
        /\ req'.route = "POST /auth/login"
        /\ req'.fault = "sign_refresh")
          => (/\ resp'.status = StatusOK
              /\ resp'.access_token # EmptyString
              /\ resp'.refresh_token = EmptyString
              /\ refresh_tokens' = refresh_tokens)]_vars

OnLogout == Done /\ req.route = "POST /auth/logout"

LoggedOut ==
    MessageResponse(StatusOK, "Logged out successfully", <<"logoutHandler">>,
                    NoLocals)

\* the refresh token logoutHandler reads from a body: none when the body
\* does not parse
LogoutToken(body) ==
    IF body.parse THEN body.refresh_token ELSE EmptyString

SaveInstants == {0, 1}

\* the rows saveRefreshToken can have inserted
SavedRows ==
    { [user_id |-> u, token |-> generateRefreshToken(t),
       expires_at |-> t + RefreshTTL] :
        u \in 1..MaxUserID, t \in SaveInstants }

SavedTables == UNION { [1..n -> SavedRows] : n \in 0..MaxRows }

\* the strings deleteRefreshToken is called with
DeleteTokens == { generateRefreshToken(t) : t \in SaveInstants } \cup {Garbage}

InitDelete ==
    /\ users = [i \in {1} |-> DefaultUser]
    /\ nextUserID = 2
    /\ refresh_tokens \in SavedTables
    /\ now = 0
    /\ issued = {}
    /\ req = NoReq
    /\ resp = NoResp

\* _, err := db.Exec("DELETE FROM refresh_tokens WHERE token = ?", token);
\* return err.  affected is the RowsAffected of the discarded sql.Result,
\* prior that of the call before when it deleted the same token.
DeleteToken ==
    \E token \in DeleteTokens, fault \in WriteFaults :
        LET rows == IF fault = "exec" THEN refresh_tokens
                    ELSE deleteRefreshToken(refresh_tokens, token)
            same == /\ req # NoReq
                    /\ req.token = token
                    /\ req.fault = "none"
        IN  /\ req' = [route |-> "deleteRefreshToken", token |-> token,
                       fault |-> fault,
                       prior |-> IF same THEN resp.affected ELSE -1]
            /\ resp' = [err |-> IF fault = "exec" THEN ErrStore ELSE ErrNone,
                        affected |-> Len(refresh_tokens) - Len(rows)]
            /\ refresh_tokens' = rows
            /\ UNCHANGED <<users, nextUserID, now, issued>>

NextDelete == DeleteToken

SpecDelete == InitDelete /\ [][NextDelete]_vars

\* C22: a call of deleteRefreshToken, the store working, returns no error
\* and leaves no row with the token; when no row holds the token the table
\* is left as it was; and a call that repeats the previous one leaves the
\* table as the previous one left it.
C22_DeleteIdempotent ==
    [][req'.fault = "none" =>
          /\ resp'.err = ErrNone
          /\ RowsWith(refresh_tokens', req'.token) = {}
          /\ RowsWith(refresh_tokens, req'.token) = {}
                => refresh_tokens' = refresh_tokens
          /\ req'.prior >= 0 => refresh_tokens' = refresh_tokens
          /\ deleteRefreshToken(refresh_tokens', req'.token) = refresh_tokens']_vars

\* a stored token has been deleted a second time, another row remaining
C22_DeletedTwice ==
    /\ req # NoReq
    /\ req.prior >= 1
    /\ resp.err = ErrNone
    /\ resp.affected = 0
    /\ refresh_tokens # <<>>

InvalidRefreshToken(r) ==
    /\ r.status = StatusUnauthorized
    /\ r.error = "Invalid or expired refresh token"
    /\ r.access_token = EmptyString

\* C23: a logout with token T whose DELETE works leaves no row holding T;
\* a row holding a string that no row held before appears only by a login
\* that returns that string; and every refresh with a token that no row
\* holds is answered 401 "Invalid or expired refresh token".  Hence a
\* refresh with T after the logout is rejected until a login stores T again.
C23_LogoutRevokes ==
    /\ [][(/\ Idle
           /\ req'.route = "POST /auth/logout"
           /\ req'.fault = "none"
           /\ LogoutToken(req'.body) # EmptyString)
             => RowsWith(refresh_tokens', LogoutToken(req'.body)) = {}]_vars
    /\ [][\A k \in DOMAIN refresh_tokens' :
             RowsWith(refresh_tokens, refresh_tokens'[k].token) = {}
                 => (/\ Idle
                     /\ req'.route = "POST /auth/login"
                     /\ resp'.refresh_token = refresh_tokens'[k].token)]_vars
    /\ [][(/\ Idle
           /\ req'.route = "POST /auth/refresh"
           /\ req'.body.parse
           /\ req'.body.refresh_token # EmptyString
           /\ RowsWith(refresh_tokens, req'.body.refresh_token) = {})
             => InvalidRefreshToken(resp')]_vars

\* a refresh token of a login, unexpired and no longer stored, has been
\* refused
C23_RefusedAfterLogout ==
    /\ OnRefresh
    /\ req.body.parse
    /\ req.fault = "none"
    /\ req.body.refresh_token \in issued
    /\ req.body.refresh_token.typ = "RegisteredClaims"
    /\ now <= req.body.refresh_token.exp
    /\ RowsWith(refresh_tokens, req.body.refresh_token) = {}
    /\ refresh_tokens # <<>>
    /\ InvalidRefreshToken(resp)

\* what the client receives of response r: the stages that ran are not
\* part of it
Body(r) == [r EXCEPT !.trace = <<>>]

\* C24: a refresh with a non-empty token that no row holds, or that is
\* stored with an expiry earlier than the current time, receives one and
\* the same response, 401 "Invalid or expired refresh token" without an
\* access token; when no row holds the token refresh_tokens is left as it
\* was.
C24_UnknownOrExpiredAlike ==
    [][(/\ Idle
        /\ req'.route = "POST /auth/refresh"
        /\ req'.body.parse
        /\ req'.body.refresh_token # EmptyString
        /\ \/ RowsWith(refresh_tokens, req'.body.refresh_token) = {}
           \/ StoredExpired(refresh_tokens, req'.body.refresh_token, now))
          => (/\ Body(resp') = Response(StatusUnauthorized,
                                        "Invalid or expired refresh token",
                                        <<>>, NoLocals)
              /\ RowsWith(refresh_tokens, req'.body.refresh_token) = {}
                    => refresh_tokens' = refresh_tokens)]_vars

\* a refresh with a string that was never stored has been refused while
\* the table holds an expired row
C24_UnknownRefused ==
    /\ OnRefresh
    /\ req.body.parse
    /\ req.body.refresh_token = Garbage
    /\ \E k \in DOMAIN refresh_tokens : refresh_tokens[k].expires_at < now
    /\ Body(resp) = Response(StatusUnauthorized,
                             "Invalid or expired refresh token", <<>>, NoLocals)

(***************************************************************************)
(* The Authentication Gate on its own: the request carries a well-formed   *)
(* header with a token anyone can craft (any header algorithm, signed with *)
(* the process secret, with another key or not at all, any claims, any     *)
(* expiry), and the step applies authMiddleware to it.                     *)
(***************************************************************************)
\* the "alg" values of the crafted headers
CraftedAlgs == HMACAlgs \cup {"none", "RS256"}

\* the keys of the crafted signatures: "" is no signature
CraftedKeys == {jwtSecret, AttackerKey, ""}

CraftedTokens ==
    { SignedString(a, k, ty, i, n, r, e, 0) :
        a \in CraftedAlgs, k \in CraftedKeys,
        ty \in {"Claims", "RegisteredClaims"}, i \in 0..MaxUserID,
        n \in {"admin", "bob"}, r \in {"admin", "user"},
        e \in {0, AccessTTL, 2 * RefreshTTL} }

InitValidator ==
    /\ users = [i \in {1} |-> DefaultUser]
    /\ nextUserID = 2
    /\ refresh_tokens = <<>>
    /\ now \in {0, AccessTTL}
    /\ issued = {}
    /\ req \in { [route |-> "authMiddleware", header |-> <<Bearer, Space, tk>>] :
                   tk \in CraftedTokens }
    /\ resp = NoResp

\* authMiddleware answers, or calls c.Next()
Authenticate ==
    /\ resp = NoResp
    /\ LET g == authMiddleware(req.header, now)
       IN  resp' = IF g.next
                   THEN [g.resp EXCEPT !.trace = Enter(g.resp, "c.Next")]
                   ELSE g.resp
    /\ UNCHANGED <<users, nextUserID, refresh_tokens, now, issued, req>>

NextValidator == Authenticate

SpecValidator == InitValidator /\ [][NextValidator]_vars

\* authMiddleware has acted on the header of req
Authenticated == req.route = "authMiddleware" /\ resp # NoResp

\* C25: a token whose signature was not made with jwtSecret is rejected by
\* validateToken whatever its algorithm, claims and expiry, and
\* authMiddleware answers it 401 "Invalid or expired token", attaches no
\* Identity Context and does not call the next stage.
C25_ForeignSecretRejected ==
    (Authenticated /\ Presented(req.header).key # jwtSecret) =>
        /\ ~validateToken(Presented(req.header), now).ok
        /\ resp = InvalidToken
        /\ ~resp.locals.set
        /\ ~Ran("c.Next")

\* an unexpired HS256 token naming the admin, signed with another key, has
\* been refused
C25_ForgedAdminRefused ==
    /\ Authenticated
    /\ Presented(req.header).key = AttackerKey
    /\ Presented(req.header).alg = "HS256"
    /\ Presented(req.header).typ = "Claims"
    /\ Presented(req.header).role = "admin"
    /\ now < Presented(req.header).exp
    /\ resp = InvalidToken

\* C26: a token whose header declares an algorithm other than HS256 is
\* rejected by validateToken, and refused by authMiddleware, even when it
\* is well-formed, unexpired and signed with jwtSecret.
C26_OnlyHS256 ==
    (Authenticated /\ Presented(req.header).alg # "HS256") =>
        /\ ~validateToken(Presented(req.header), now).ok
        /\ resp = InvalidToken

\* a row other than id holds the username or the email
Collides(us, id, username, email) ==
    \E j \in DOMAIN us \ {id} :
        \/ username # "" /\ us[j].username = username
        \/ email # "" /\ us[j].email = email

\* the request of a step passes the validation of createUserHandler
\* (resp. updateUserHandler) and its INSERT (resp. UPDATE) would give two
\* rows one username or one email
CreateCollides(rq) ==
    /\ rq.route = "POST /admin/users"
    /\ rq.body.parse
    /\ rq.body.username # "" /\ rq.body.email # "" /\ rq.body.password # ""
    /\ rq.body.role \in {"", "admin", "user"}
    /\ Collides(users, 0, rq.body.username, rq.body.email)

UpdateCollides(rq) ==
    /\ rq.route = "PUT /admin/users/:id"
    /\ rq.id.int
    /\ rq.body.parse
    /\ rq.body.role \in {"", "admin", "user"}
    /\ rq.body.status \in {"", "active", "disabled"}
    /\ rq.id.n \in DOMAIN users
    /\ Collides(users, rq.id.n, "", rq.body.email)

\* C27: in every reachable state no two rows of users, active or disabled,
\* hold the same username or the same email; a create or an update whose
\* write would give two rows one username or one email is answered 409 and
\* leaves users as it was.  Each write is a single statement, so the
\* requests taken one after the other are all the interleavings of writes.
C27_UniqueUsers ==
    /\ [](\A i, j \in DOMAIN users :
             i # j => /\ users[i].username # users[j].username
                      /\ users[i].email # users[j].email)
    /\ [][(/\ Idle
           /\ req' # NoReq
           /\ req'.fault = "none"
           /\ \E k \in DOMAIN resp'.trace :
                 resp'.trace[k] = HandlerOf(req'.route)
           /\ CreateCollides(req') \/ UpdateCollides(req'))
             => (/\ resp'.status = StatusConflict
                 /\ users' = users
                 /\ nextUserID' = nextUserID)]_vars

\* an update giving a disabled user the email of another has been
\* answered 409
C27_EmailConflict ==
    /\ OnAdmin
    /\ req.route = "PUT /admin/users/:id"
    /\ resp.status = StatusConflict
    /\ req.id.n \in DOMAIN users
    /\ users[req.id.n].status = "disabled"
    /\ users[req.id.n].email # req.body.email

\* the error a handler answers a caller naming its own id with
SelfError(route) ==
    CASE route = "PUT /admin/users/:id/disable" ->
             "Cannot disable your own account"
      [] route = "DELETE /admin/users/:id" -> "Cannot delete your own account"
      [] OTHER -> ""

\* C28: a request with a valid token to PUT /admin/users/<id>/disable or
\* DELETE /admin/users/<id> whose <id> is the userID of the token leaves
\* users as it was: a caller whose role is not "admin" is answered 403
\* "Admin access required" by the gate, on whatever path under /admin, and
\* a caller whose role is "admin" is answered 400 "Cannot disable your own
\* account" / "Cannot delete your own account".
C28_NoSelfDisableOrDelete ==
    [][(/\ Idle
        /\ req' # NoReq
        /\ req'.route \in AdminRoutes
        /\ WellFormed(req'.header)
        /\ validateToken(Presented(req'.header), now).ok)
          => LET caller == validateToken(Presented(req'.header), now)
             IN  /\ caller.Role # "admin" =>
                       /\ resp'.status = StatusForbidden
                       /\ resp'.error = "Admin access required"
                       /\ req'.route = "/admin"
                       /\ users' = users
                 /\ (/\ caller.Role = "admin"
                     /\ SelfError(req'.route) # ""
                     /\ req'.id.int
                     /\ req'.id.n = caller.UserID) =>
                       /\ resp'.status = StatusBadRequest
                       /\ resp'.error = SelfError(req'.route)
                       /\ users' = users]_vars

\* an admin other than the default one has been refused the deletion of
\* its own account
C28_SelfDeleteRefused ==
    /\ OnAdmin
    /\ req.route = "DELETE /admin/users/:id"
    /\ ValidToken
    /\ req.id.n = PresentedClaims.UserID
    /\ req.id.n # DefaultUser.id
    /\ resp.status = StatusBadRequest
    /\ resp.error = "Cannot delete your own account"
    /\ req.id.n \in DOMAIN users

(***************************************************************************)
(* Two validateRefreshToken calls on one token running concurrently: the   *)
(* SELECT and the DELETE of a call are separate statements and those of    *)
(* the two calls interleave in every order.  req holds the token and the   *)
(* position of each call, resp what each call has done and returned.       *)
(***************************************************************************)
Calls == {1, 2}

\* mutant: the expired branch returns an error when its DELETE removed no
\* row
expiredBranchChecked(rows, token) ==
    [err |-> IF RowsWith(rows, token) = {} THEN ErrStore ELSE ErrNoRows,
     rows |-> deleteRefreshToken(rows, token)]

\* db.Exec("DELETE FROM refresh_tokens WHERE token = ?", token);
\* return 0, sql.ErrNoRows
expiredBranch(rows, token) ==
    [err |-> ErrNoRows, rows |-> deleteRefreshToken(rows, token)]

InitRace ==
    /\ users = [i \in {1} |-> DefaultUser]
    /\ nextUserID = 2
    /\ refresh_tokens \in SavedTables
    /\ now \in {RefreshTTL, RefreshTTL + 1, RefreshTTL + 2}
    /\ issued = {}
    /\ req \in { [route |-> "validateRefreshToken", token |-> tk,
                  pc |-> [p \in Calls |-> "SELECT"]] :
                   tk \in { generateRefreshToken(t) : t \in SaveInstants } }
    /\ resp = [p \in Calls |-> [err |-> "", userID |-> 0, trace |-> <<>>,
                                affected |-> 0]]

\* err := db.QueryRow(SELECT user_id, expires_at ...).Scan(...);
\* if err != nil { return 0, err }; if time.Now().After(expiresAt) {...}
\* else return userID, nil
SelectRow(p) ==
    /\ req.pc[p] = "SELECT"
    /\ LET found == RowsWith(refresh_tokens, req.token) # {}
           row == FirstRow(refresh_tokens, req.token)
           tr == Append(resp[p].trace, "SELECT")
       IN  IF ~found
           THEN /\ resp' = [resp EXCEPT ![p].err = ErrNoRows, ![p].trace = tr]
                /\ req' = [req EXCEPT !.pc[p] = "return"]
           ELSE IF now > row.expires_at
           THEN /\ resp' = [resp EXCEPT ![p].trace = tr]
                /\ req' = [req EXCEPT !.pc[p] = "DELETE"]
           ELSE /\ resp' = [resp EXCEPT ![p].err = ErrNone,
                                        ![p].userID = row.user_id,
                                        ![p].trace = tr]
                /\ req' = [req EXCEPT !.pc[p] = "return"]
    /\ UNCHANGED <<users, nextUserID, refresh_tokens, now, issued>>

\* the expired branch of the call
DeleteRow(p) ==
    /\ req.pc[p] = "DELETE"
    /\ LET out == expiredBranch(refresh_tokens, req.token)
       IN  /\ refresh_tokens' = out.rows
           /\ resp' = [resp EXCEPT
                          ![p].err = out.err,
                          ![p].trace = Append(@, "DELETE"),
                          ![p].affected = Len(refresh_tokens) - Len(out.rows)]
    /\ req' = [req EXCEPT !.pc[p] = "return"]
    /\ UNCHANGED <<users, nextUserID, now, issued>>

NextRace == \E p \in Calls : SelectRow(p) \/ DeleteRow(p)

SpecRace == InitRace /\ [][NextRace]_vars

Returned(p) == req.pc[p] = "return"

\* C29: of two concurrent validateRefreshToken calls on a token whose
\* expiry has passed, each that has returned reports sql.ErrNoRows and no
\* user, whatever the other has done to the rows in between, and when both
\* have returned no row holds the token.
C29_ExpiredRace ==
    now > req.token.exp =>
        /\ \A p \in Calls :
              Returned(p) => resp[p].err = ErrNoRows /\ resp[p].userID = 0
        /\ (\A p \in Calls : Returned(p))
              => RowsWith(refresh_tokens, req.token) = {}

\* both calls found the row and ran their DELETE: one removed it, the
\* other removed nothing, and a row of another token is left
C29_BothDeleted ==
    /\ now > req.token.exp
    /\ \A p \in Calls : Returned(p) /\ resp[p].trace = <<"SELECT", "DELETE">>
    /\ resp[1].affected = 1
    /\ resp[2].affected = 0
    /\ Len(refresh_tokens) = 1

(***************************************************************************)
(* Sessions: logins in consecutive seconds, refresh, logout and the        *)
(* creation and deletion of users, with a clock that visits the first two  *)
(* seconds and the one at which the refresh tokens of the first have       *)
(* expired and those of the second have not.                               *)
(***************************************************************************)
SessionInstants == {0, 1, RefreshTTL + 1}

TickSessions ==
    /\ Idle
    /\ \E t \in SessionInstants : t > now /\ now' = t
    /\ UNCHANGED <<users, nextUserID, refresh_tokens, issued, req, resp>>

NextSessions ==
    \/ Login
    \/ Refresh
    \/ Logout
    \/ CreateUser
    \/ DeleteUser
    \/ TickSessions
    \/ Release

SpecSessions == Init /\ [][NextSessions]_vars

\* a login leaves every row it found in refresh_tokens in place and adds
\* at most one
LoginKeepsRows ==
    [][(Idle /\ req'.route = "POST /auth/login")
          => (/\ Len(refresh_tokens') \in {Len(refresh_tokens),
                                            Len(refresh_tokens) + 1}
              /\ SubSeq(refresh_tokens', 1, Len(refresh_tokens))
                    = refresh_tokens)]_vars

\* a refresh with the token of row k, the store and the signing working,
\* succeeds
Exchangeable(k) ==
    refreshHandler(users, nextUserID, refresh_tokens, now,
                   [parse |-> TRUE, refresh_token |-> refresh_tokens[k].token],
                   "none").resp.status = StatusOK

C31_LifetimesFixed ==
    [][(/\ Idle
        /\ req'.route \in {"POST /auth/login", "POST /auth/refresh"}
        /\ resp'.status = StatusOK)
          => (/\ resp'.access_token.iat = now
              /\ resp'.access_token.exp = resp'.access_token.iat + 24 * 3600
              /\ resp'.token_type = "Bearer"
              /\ resp'.expires_in = 86400
              /\ \A k \in DOMAIN refresh_tokens' \ DOMAIN refresh_tokens :
                    refresh_tokens'[k].expires_at = now + 7 * 24 * 3600)]_vars

\* a refresh in the second second has returned an access token while a
\* row saved in the first is stored
C31_RefreshedLater ==
    /\ OnRefresh
    /\ resp.status = StatusOK
    /\ now = 1
    /\ resp.access_token.exp = 1 + 86400
    /\ FirstRow(refresh_tokens, req.body.refresh_token).expires_at = 604800

\* C32: a login whose body parses with an empty username or an empty
\* password is answered 400 "Username and password are required", and a
\* refresh whose body parses with an empty refresh_token 400 "Refresh token
\* is required"; the answer carries no token, is the same whether the store
\* or the signing would fail (no call of them is made), and users and
\* refresh_tokens are left as they were.
C32_EmptyInputRejected ==
    [][(/\ Idle
        /\ req' # NoReq
        /\ req'.body.parse
        /\ \/ /\ req'.route = "POST /auth/login"
              /\ req'.body.username = "" \/ req'.body.password = ""
           \/ /\ req'.route = "POST /auth/refresh"
              /\ req'.body.refresh_token = EmptyString)
          => (/\ resp' = Response(StatusBadRequest,
                                  IF req'.route = "POST /auth/login"
                                  THEN "Username and password are required"
                                  ELSE "Refresh token is required",
                                  <<IF req'.route = "POST /auth/login"
                                    THEN "loginHandler" ELSE "refreshHandler">>,
                                  NoLocals)
              /\ req'.fault = "none"
              /\ \A f \in LoginFaults \cup RefreshFaults :
                    /\ req'.route = "POST /auth/login" =>
                          loginHandler(users, nextUserID, refresh_tokens, now,
                                       req'.body, f).resp = resp'
                    /\ req'.route = "POST /auth/refresh" =>
                          refreshHandler(users, nextUserID, refresh_tokens, now,
                                         req'.body, f).resp = resp'
              /\ users' = users
              /\ nextUserID' = nextUserID
              /\ refresh_tokens' = refresh_tokens)]_vars

\* a login with the right username and an empty password has been refused
\* while a refresh token is stored
C32_EmptyPasswordRefused ==
    /\ OnLogin
    /\ req.body.parse
    /\ req.body.username = "admin"
    /\ req.body.password = ""
    /\ resp.status = StatusBadRequest
    /\ refresh_tokens # <<>>

\* C33: in every reachable state the user_id of every row of
\* refresh_tokens is the id of a row of users.
C33_OwnersExist ==
    \A k \in DOMAIN refresh_tokens : refresh_tokens[k].user_id \in DOMAIN users

\* C34: in every reachable state no two rows of refresh_tokens hold the
\* same token string, the token of a remember-me login being different
\* from every one stored before.
C34_TokensDistinct ==
    \A j, k \in DOMAIN refresh_tokens :
        j # k => refresh_tokens[j].token # refresh_tokens[k].token

\* the rows of the table that hold another string than token, in order
OtherRows(rows, token) ==
    LET other(r) == r.token # token IN SelectSeq(rows, other)

\* C35: a step removes rows of refresh_tokens only when it is a refresh
\* naming their token, found stored with its expiry passed, or a logout
\* naming their token; a login keeps every row and may add one; a refresh
\* answered 200, a refresh or a logout of another token, and every request
\* on /user and /admin (update, enable, disable and delete of users
\* included) leave the table as it was.
C35_LazyPruningOnly ==
    [][IF req' = NoReq \/ ~Idle THEN refresh_tokens' = refresh_tokens
       ELSE IF req'.route = "POST /auth/login"
       THEN SubSeq(refresh_tokens', 1, Len(refresh_tokens)) = refresh_tokens
       ELSE IF req'.route = "POST /auth/refresh"
       THEN LET token == LogoutToken(req'.body)
            IN  /\ OtherRows(refresh_tokens', token)
                      = OtherRows(refresh_tokens, token)
                /\ refresh_tokens' # refresh_tokens
                      => (/\ StoredExpired(refresh_tokens, token, now)
                          /\ RowsWith(refresh_tokens', token) = {})
                /\ resp'.status = StatusOK => refresh_tokens' = refresh_tokens
       ELSE IF req'.route = "POST /auth/logout"
       THEN /\ OtherRows(refresh_tokens', LogoutToken(req'.body))
                  = OtherRows(refresh_tokens, LogoutToken(req'.body))
            /\ refresh_tokens' # refresh_tokens
                  => RowsWith(refresh_tokens', LogoutToken(req'.body)) = {}
       ELSE refresh_tokens' = refresh_tokens]_vars

\* a user has been deleted and the expired row of its refresh token is
\* still stored
C35_ExpiredRowLeft ==
    /\ OnAdmin
    /\ req.route = "DELETE /admin/users/:id"
    /\ resp.status = StatusOK
    /\ \E k \in DOMAIN refresh_tokens :
          /\ refresh_tokens[k].expires_at < now
          /\ refresh_tokens[k].user_id = req.id.n
          /\ req.id.n \notin DOMAIN users

\* C36: a refresh with a token that is stored, whose stored expiry has not
\* passed and whose row names a user that has no row in users (it was
\* deleted) is answered 401 without an access token, "User not found" when
\* the store works, and leaves refresh_tokens as it was.
C36_OrphanTokenRefused ==
    [][(/\ Idle
        /\ req' # NoReq
        /\ req'.route = "POST /auth/refresh"
        /\ req'.body.parse
        /\ StoredLive(refresh_tokens, req'.body.refresh_token, now)
        /\ FirstRow(refresh_tokens, req'.body.refresh_token).user_id
               \notin DOMAIN users)
          => (/\ resp'.status = StatusUnauthorized
              /\ resp'.access_token = EmptyString
              /\ req'.fault = "none" => resp'.error = "User not found"
              /\ refresh_tokens' = refresh_tokens)]_vars

\* the refresh of a deleted user's token has been refused and the row is
\* still stored
C36_OrphanRowKept ==
    /\ OnRefresh
    /\ req.fault = "none"
    /\ resp.status = StatusUnauthorized
    /\ resp.error = "User not found"
    /\ RowsWith(refresh_tokens, req.body.refresh_token) # {}
    /\ now <= FirstRow(refresh_tokens, req.body.refresh_token).expires_at

\* C37: a login that is not answered 200 is answered 400, 401 or 500,
\* returns no access token and no refresh token, and leaves users and
\* refresh_tokens as they were.
C37_FailedLoginNoEffect ==
    [][(/\ Idle
        /\ req'.route = "POST /auth/login"
        /\ resp'.status # StatusOK)
          => (/\ resp'.status \in {StatusBadRequest, StatusUnauthorized,
                                   StatusInternalServerError}
              /\ resp'.access_token = EmptyString
              /\ resp'.refresh_token = EmptyString
              /\ users' = users
              /\ nextUserID' = nextUserID
              /\ refresh_tokens' = refresh_tokens)]_vars

\* a remember-me login with the right password has failed at the signing
\* of the access token
C37_SigningFailed ==
    /\ OnLogin
    /\ req.fault = "sign_access"
    /\ req.body.rememberMe
    /\ LoginUser # {}
    /\ resp.status = StatusInternalServerError
    /\ resp.error = "Failed to generate access token"

\* C38: no request on an admin route with a valid token of user U changes
\* the status of U's own row from "active" to "disabled".
C38_NoSelfDisable ==
    [][(/\ Idle
        /\ req' # NoReq
        /\ req'.route \in AdminRoutes
        /\ WellFormed(req'.header)
        /\ validateToken(Presented(req'.header), now).ok)
          => LET U == validateToken(Presented(req'.header), now).UserID
             IN  (/\ U \in DOMAIN users
                  /\ U \in DOMAIN users'
                  /\ users[U].status = "active")
                     => users'[U].status # "disabled"]_vars

\* C39: in every reachable state users holds at least one row.
C39_NeverEmpty == DOMAIN users # {}

====
